---- MODULE Spec2Model ----
(***************************************************************************)
(* A model of the jsonpath engine: the footprint model (footprint.go), the *)
(* evaluator (handlers.go) and the Get/Set facade (jsonpath.go).           *)
(*                                                                         *)
(* Go values are modelled with their sharing: a map is a reference to a    *)
(* heap object, a slice is a header (backing array, len, cap) copied by    *)
(* value, and append either writes in place (cap suffices) or moves the    *)
(* elements to a new backing array.                                        *)
(***************************************************************************)
EXTENDS Integers, Sequences, FiniteSets, TLC

\* ------------------------------------------------------------------ bounds
MaxLen == 3       \* longest array of scalars drawn as a document
MaxIdx == 4       \* slice and index literals range over -MaxIdx..MaxIdx
MaxSpare == 1     \* spare capacity (cap - len) a document array may start with
MaxCalls == 2     \* calls of Get/Set made on one compiled path

VARIABLES
    heap,         \* Go heap: sequence of map objects and backing arrays
    dataHolder,   \* Jsonpath.dataHolder: slice header
    parser,       \* Jsonpath.parser.Root.Nodes[0]: the compiled ListNode
    writeMode,    \* Jsonpath.writeMode
    warnings,     \* Jsonpath.warnings
    result,       \* what the last Get returned (the dereferenced pointers)
    err,          \* what the last call returned as error ("" is nil)
    log           \* history: one record per call made so far

vars == <<heap, dataHolder, parser, writeMode, warnings, result, err, log>>

\* ------------------------------------------------------------------ values
\* interface{} values: scalars, map references and slice headers.
Null == [t |-> "null", v |-> 0]
IntV(n) == [t |-> "int", v |-> n]
BoolV(b) == [t |-> "bool", v |-> IF b THEN 1 ELSE 0]
StrV(n) == [t |-> "str", v |-> n]
FloatV(n) == [t |-> "float", v |-> n]
MapV(a) == [t |-> "map", a |-> a]
ArrV(a, l, c) == [t |-> "arr", a |-> a, len |-> l, cap |-> c]

IsMap(x) == x.t = "map"
IsArr(x) == x.t = "arr"

\* Structural JSON (what json.Marshal shows): objects and lists by content.
Obj(m) == [t |-> "obj", m |-> m]
List(e) == [t |-> "list", e |-> e]
NoKeys == [k \in {} |-> Null]

\* The key universe, in a fixed order used only to enumerate.
KeySeq == <<"a", "b">>
Keys == {KeySeq[i] : i \in DOMAIN KeySeq}

\* All orders in which Go may range over the keys of a map.
KeyOrders == {o \in [1..Len(KeySeq) -> Keys] : \A k \in Keys : \E i \in DOMAIN o : o[i] = k}

RECURSIVE SeqFilter(_, _, _)
SeqFilter(s, S, i) ==
    IF i > Len(s) THEN <<>>
    ELSE (IF s[i] \in S THEN <<s[i]>> ELSE <<>>) \o SeqFilter(s, S, i + 1)

\* ------------------------------------------------------------------ heap
MapObj(m) == [k |-> "map", m |-> m]
ArrObj(e) == [k |-> "arr", e |-> e]
Nulls(n) == [i \in 1..n |-> Null]

MapOf(h, x) == h[x.a].m
MapHas(h, x, key) == key \in DOMAIN h[x.a].m
\* Mutant of MapGet: the read yields the zero value whatever the map holds.
MapGetNil(h, x, key) == Null
\* Mutant of MapPut: the write drops the other keys of the map.
MapPutLosing(h, x, key, val) == [h EXCEPT ![x.a] = MapObj([k \in {key} |-> val])]
\* v := m[key]: the zero value (nil) when the key is absent
MapGet(h, x, key) == IF MapHas(h, x, key) THEN h[x.a].m[key] ELSE Null
MapPut(h, x, key, val) ==
    [h EXCEPT ![x.a] = MapObj([k \in (DOMAIN h[x.a].m) \cup {key} |->
                                 IF k = key THEN val ELSE h[x.a].m[k]])]
\* ref[i] through the header x (0-based i)
ArrGet(h, x, i) == h[x.a].e[i + 1]
ArrPut(h, x, i, val) == [h EXCEPT ![x.a] = ArrObj([h[x.a].e EXCEPT ![i + 1] = val])]

\* make(map[string]interface{})
MakeMap(h) == [h |-> Append(h, MapObj(NoKeys)), v |-> MapV(Len(h) + 1)]
\* make([]interface{}, n), n >= 0
MakeArr(h, n) == [h |-> Append(h, ArrObj(Nulls(n))), v |-> ArrV(Len(h) + 1, n, n)]

\* Capacity of the array append moves to when cap does not suffice
\* (the gc runtime: the needed length, or double the old capacity).
GrowCap(oldCap, newLen) == IF newLen > 2 * oldCap THEN newLen ELSE 2 * oldCap

\* Mutant of AppendNulls: the grown array does not keep the old elements.
AppendNullsLosing(h, x, n) ==
    [h |-> Append(h, ArrObj(Nulls(x.len + n))), v |-> ArrV(Len(h) + 1, x.len + n, x.len + n)]

\* append(x, make([]interface{}, n)...): in place when cap suffices, else
\* the elements move to a fresh backing array and x's old array is left as is.
AppendNulls(h, x, n) ==
    IF x.len + n <= x.cap
    THEN [h |-> [h EXCEPT ![x.a] = ArrObj([i \in 1..x.cap |->
                     IF i > x.len /\ i <= x.len + n THEN Null ELSE h[x.a].e[i]])],
          v |-> ArrV(x.a, x.len + n, x.cap)]
    ELSE LET c == GrowCap(x.cap, x.len + n)
         IN [h |-> Append(h, ArrObj([i \in 1..c |->
                        IF i <= x.len THEN h[x.a].e[i] ELSE Null])),
             v |-> ArrV(Len(h) + 1, x.len + n, c)]

\* The structural content of a value, read from the heap.
RECURSIVE Tree(_, _)
Tree(h, x) ==
    CASE IsMap(x) -> Obj([k \in DOMAIN h[x.a].m |-> Tree(h, h[x.a].m[k])])
      [] IsArr(x) -> List([i \in 1..x.len |-> Tree(h, h[x.a].e[i])])
      [] OTHER -> x

\* A structural value built on the heap, arrays with `spare` unused capacity.
RECURSIVE Alloc(_, _, _)
RECURSIVE AllocKeys(_, _, _, _, _)
RECURSIVE AllocElems(_, _, _, _, _)
AllocKeys(h, m, i, acc, spare) ==
    IF i > Len(KeySeq) THEN [h |-> h, m |-> acc]
    ELSE IF KeySeq[i] \notin DOMAIN m THEN AllocKeys(h, m, i + 1, acc, spare)
    ELSE LET r == Alloc(h, m[KeySeq[i]], spare)
         IN AllocKeys(r.h, m, i + 1,
                      [k \in (DOMAIN acc) \cup {KeySeq[i]} |->
                          IF k = KeySeq[i] THEN r.v ELSE acc[k]], spare)
AllocElems(h, e, i, acc, spare) ==
    IF i > Len(e) THEN [h |-> h, e |-> acc]
    ELSE LET r == Alloc(h, e[i], spare)
         IN AllocElems(r.h, e, i + 1, Append(acc, r.v), spare)
Alloc(h, tr, spare) ==
    CASE tr.t = "obj" ->
            LET r == AllocKeys(h, tr.m, 1, NoKeys, spare)
            IN [h |-> Append(r.h, MapObj(r.m)), v |-> MapV(Len(r.h) + 1)]
      [] tr.t = "list" ->
            LET r == AllocElems(h, tr.e, 1, <<>>, spare)
            IN [h |-> Append(r.h, ArrObj(r.e \o Nulls(spare))),
                v |-> ArrV(Len(r.h) + 1, Len(tr.e), Len(tr.e) + spare)]
      [] OTHER -> [h |-> h, v |-> tr]

\* ------------------------------------------------------------------ footprints
\* VirtualInfo; NilInfo is what NewFootprint reads from a nil virtualInfo.
VirtualInfo(virtual, realSize) == [Virtual |-> virtual, RealSize |-> realSize]
NilInfo == VirtualInfo(FALSE, 0)
\* SelectionKey / SelectionIndex: key is a string (map) or an index (array).
Selection(key, virtual, realSize) == [key |-> key, Virtual |-> virtual, RealSize |-> realSize]

\* A Footprint value. ref is the interface value its Ref points at: no code
\* assigns through Ref, so the pointer is modelled by the value it holds.
\* kind "map" is MapFootprint, "arr" ArrayFootprint, "non" NonRefFootprint.
Footprint(kind, ref, sel, virtual, realSize) ==
    [k |-> kind, leave |-> FALSE, ref |-> ref, sel |-> sel,
     Virtual |-> virtual, RealSize |-> realSize]

NewFootprint(x, vi) ==
    CASE IsMap(x) -> Footprint("map", x, <<>>, vi.Virtual, 0)
      [] IsArr(x) -> Footprint("arr", x, <<>>, vi.Virtual, vi.RealSize)
      [] OTHER -> Footprint("non", x, <<>>, FALSE, 0)

LeaveItAsItIs(fp) == [fp EXCEPT !.leave = TRUE]

\* *fp.HolderPtr()
HolderPtr(fp) == fp.ref

\* fp.Expand(): [fps, err]; err is TRUE when Expand returns an error.
Expand(h, fp) ==
    CASE fp.k = "non" -> [fps |-> <<>>, err |-> TRUE]
      [] fp.leave -> [fps |-> <<[fp EXCEPT !.leave = FALSE]>>, err |-> FALSE]
      [] fp.k = "map" ->
            [fps |-> [i \in 1..Len(fp.sel) |->
                        NewFootprint(MapGet(h, fp.ref, fp.sel[i].key), fp.sel[i])],
             err |-> FALSE]
      [] OTHER ->
            [fps |-> [i \in 1..Len(fp.sel) |->
                        NewFootprint(ArrGet(h, fp.ref, fp.sel[i].key), fp.sel[i])],
             err |-> FALSE]

RECURSIVE expandFrom(_, _, _, _)
expandFrom(h, footprints, remainUnexpandableFootprint, i) ==
    IF i > Len(footprints) THEN <<>>
    ELSE LET r == Expand(h, footprints[i])
         IN (IF r.err /\ remainUnexpandableFootprint THEN <<footprints[i]>> ELSE r.fps)
            \o expandFrom(h, footprints, remainUnexpandableFootprint, i + 1)
\* Mutant of expandFootprints: at most the first footprint is returned.
expandFootprintsFirst(h, footprints, remainUnexpandableFootprint) ==
    LET first(fps) == IF Len(fps) = 0 THEN fps ELSE <<fps[1]>>
    IN first(expandFrom(h, footprints, remainUnexpandableFootprint, 1))

expandFootprints(h, footprints, remainUnexpandableFootprint) ==
    expandFrom(h, footprints, remainUnexpandableFootprint, 1)

\* The order in which a call ranges over the keys of the map at address a
\* (unspecified in Go): ord gives it for the maps where it can show.
OrderOf(ord, a) == IF a \in DOMAIN ord THEN ord[a] ELSE KeySeq

\* fp.SelectAll(): [fp, err].
SelectAll(h, fp, ord) ==
    CASE fp.k = "map" ->
            LET ks == SeqFilter(OrderOf(ord, fp.ref.a), DOMAIN MapOf(h, fp.ref), 1)
            IN [fp |-> [fp EXCEPT !.sel = [i \in 1..Len(ks) |-> Selection(ks[i], FALSE, -1)]],
                err |-> FALSE]
      [] fp.k = "arr" ->
            [fp |-> [fp EXCEPT !.sel = [i \in 1..fp.ref.len |-> Selection(i - 1, FALSE, -1)]],
             err |-> FALSE]
      [] OTHER -> [fp |-> fp, err |-> TRUE]

\* The selected child of a Map/Array footprint, and the write ref[key] = val.
ChildHas(h, fp, key) == IF fp.k = "map" THEN MapHas(h, fp.ref, key) ELSE TRUE
ChildGet(h, fp, key) == IF fp.k = "map" THEN MapGet(h, fp.ref, key) ELSE ArrGet(h, fp.ref, key)
ChildPut(h, fp, key, val) ==
    IF fp.k = "map" THEN MapPut(h, fp.ref, key, val) ELSE ArrPut(h, fp.ref, key, val)

\* The guard at the head of the Enforce loops: "" when the child can be read.
EnforceGuard(h, fp, s) ==
    IF fp.k = "map"
    THEN (IF MapHas(h, fp.ref, s.key) THEN "" ELSE "cannot find the element by key")
    ELSE (IF s.key < 0 \/ s.key > fp.ref.len THEN "invalid index"
          ELSE IF s.key = fp.ref.len THEN "panic: index out of range"
          ELSE "")

\* fp.EnforceArraySelection(size), from selection i on: [h, fp, err].
\* The heap keeps what was written before an error; fp carries the RealSize
\* the loop stores back into the (shared) selection slice.
RECURSIVE EnforceArrayFrom(_, _, _, _)
EnforceArrayFrom(h, fp, size, i) ==
    IF i > Len(fp.sel) THEN [h |-> h, fp |-> fp, err |-> ""]
    ELSE LET s == fp.sel[i]
             g == EnforceGuard(h, fp, s)
             child == ChildGet(h, fp, s.key)
         IN IF g # "" THEN [h |-> h, fp |-> fp, err |-> g]
            ELSE IF IsArr(child)
            THEN LET r == AppendNulls(h, child, size - child.len)
                     h2 == IF size # -1 /\ child.len < size
                           THEN ChildPut(r.h, fp, s.key, r.v) ELSE h
                 IN EnforceArrayFrom(h2, [fp EXCEPT !.sel[i].RealSize = child.len], size, i + 1)
            ELSE IF ~s.Virtual
            THEN [h |-> h, fp |-> fp, err |-> "the selection is not an array or a virtual"]
            ELSE IF size = -1
            THEN [h |-> h, fp |-> fp, err |-> "cannot use * to set in a virtual"]
            ELSE IF size < 0
            THEN [h |-> h, fp |-> fp, err |-> "panic: makeslice: len out of range"]
            ELSE LET r == MakeArr(h, size)
                 IN EnforceArrayFrom(ChildPut(r.h, fp, s.key, r.v),
                                     [fp EXCEPT !.sel[i].RealSize = -1], size, i + 1)

EnforceArraySelection(h, fp, size) ==
    IF fp.k = "non"
    THEN [h |-> h, fp |-> fp, err |-> "EnforceArraySelection is not supported by NonRefFootprint"]
    ELSE EnforceArrayFrom(h, fp, size, 1)

\* fp.EnforceObjectSelection(), from selection i on: [h, err].
RECURSIVE EnforceObjectFrom(_, _, _)
EnforceObjectFrom(h, fp, i) ==
    IF i > Len(fp.sel) THEN [h |-> h, err |-> ""]
    ELSE LET s == fp.sel[i]
             g == EnforceGuard(h, fp, s)
         IN IF g # "" THEN [h |-> h, err |-> g]
            ELSE IF IsMap(ChildGet(h, fp, s.key)) THEN EnforceObjectFrom(h, fp, i + 1)
            ELSE IF s.Virtual
            THEN LET r == MakeMap(h)
                 IN EnforceObjectFrom(ChildPut(r.h, fp, s.key, r.v), fp, i + 1)
            ELSE [h |-> h, err |-> "the selection is not an array or a virtual"]

EnforceObjectSelection(h, fp) ==
    IF fp.k = "non"
    THEN [h |-> h, err |-> "EnforceObjectSelection is not supported by NonRefFootprint"]
    ELSE EnforceObjectFrom(h, fp, 1)

\* fp.UpdateAll(data): [h, err]
RECURSIVE UpdateFrom(_, _, _, _)
UpdateFrom(h, fp, data, i) ==
    IF i > Len(fp.sel) THEN h
    ELSE UpdateFrom(ChildPut(h, fp, fp.sel[i].key, data), fp, data, i + 1)
UpdateAll(h, fp, data) ==
    IF fp.k = "non"
    THEN [h |-> h, err |-> "UpdateAll is not supported by NonRefFootprint"]
    ELSE [h |-> UpdateFrom(h, fp, data, 1), err |-> ""]

\* ------------------------------------------------------------------ AST
ListNode(nodes) == [type |-> "List", Nodes |-> nodes]
FieldNode(value) == [type |-> "Field", Value |-> value]
ParamsEntry(value, known) == [Value |-> value, Known |-> known]
ArrayNode(x, y, z) == [type |-> "Array", Params |-> <<x, y, z>>]
ArrayElementNode(p) == [type |-> "ArrayElement", Value |-> p.Value, Known |-> p.Known]
WildcardNode == [type |-> "Wildcard"]
RecursiveNode == [type |-> "Recursive"]
UnionNode(lists) == [type |-> "Union", Nodes |-> lists]
FilterNode(left, right, operator) ==
    [type |-> "Filter", Left |-> left, Right |-> right, Operator |-> operator]
IntNode(value) == [type |-> "Int", Value |-> value]
BoolNode(value) == [type |-> "Bool", Value |-> value]
FloatNode(value) == [type |-> "Float", Value |-> value]
IdentifierNode(name) == [type |-> "Identifier", Name |-> name]
TextNode(text) == [type |-> "Text", Text |-> text]

\* ------------------------------------------------------------------ evaluator
\* What a handler returns, with the state it leaves behind: the footprints,
\* the heap, the warnings of the Jsonpath and the error ("" is nil).
Res(fps, h, w, e) == [fps |-> fps, h |-> h, w |-> w, err |-> e]

\* Mutant of Ctx: the call runs in write mode whatever the caller set.
CtxWriting(mode, ord) == [writeMode |-> TRUE, ord |-> ord]

\* The context of one call: j.writeMode and the map iteration orders.
Ctx(mode, ord) == [writeMode |-> mode, ord |-> ord]

\* template.Less/Greater/Equal/...: [pass, err]
TemplateCompare(operator, left, right) ==
    IF left.t \in {"int", "str"} /\ left.t = right.t
    THEN [pass |-> CASE operator = "<" -> left.v < right.v
                     [] operator = ">" -> left.v > right.v
                     [] operator = "==" -> left.v = right.v
                     [] operator = "!=" -> left.v # right.v
                     [] operator = "<=" -> left.v <= right.v
                     [] OTHER -> left.v >= right.v,
          err |-> ""]
    ELSE [pass |-> FALSE, err |-> "incompatible types for comparison"]

\* Mutant of genericCompare: every comparison passes.
genericCompareAlways(operator, left, right) == [pass |-> TRUE, err |-> ""]

genericCompare(operator, left, right) ==
    IF operator \in {"<", ">", "==", "!=", "<=", ">="}
    THEN LET r == TemplateCompare(operator, left, right)
         IN IF r.err # "" THEN [pass |-> FALSE, err |-> r.err] ELSE r
    ELSE [pass |-> FALSE, err |-> "unrecognized filter operator"]

\* inferArrayNode for a slice (three Params) on an array of length n.
inferStep(z) == IF z.Known /\ z.Value # 0 THEN z.Value ELSE 1
inferBase(n, x, step) ==
    IF ~x.Known THEN (IF step > 0 THEN 0 ELSE n - 1)
    ELSE IF x.Value > n - 1 THEN (IF step < 0 THEN n - 1 ELSE x.Value)
    ELSE IF x.Value >= 0 THEN x.Value
    ELSE IF x.Value >= -n THEN x.Value + n
    ELSE 0
inferLimit(n, y, step) ==
    IF ~y.Known THEN (IF step > 0 THEN n ELSE -1)
    ELSE IF y.Value >= 0 THEN y.Value
    ELSE IF y.Value >= -n THEN y.Value + n
    ELSE -1
inferArrayNode(n, node) ==
    LET step == inferStep(node.Params[3])
    IN [base |-> inferBase(n, node.Params[1], step),
        limit |-> inferLimit(n, node.Params[2], step),
        step |-> step, needInvert |-> step < 0]

\* The index loops of evalArray: the indices i, i+step, ... the loop appends.
RECURSIVE sliceLoop(_, _, _, _, _)
sliceLoop(i, n, limit, step, needInvert) ==
    IF i < n /\ i > -1 /\ (IF needInvert THEN i > limit ELSE i < limit)
    THEN <<i>> \o sliceLoop(i + step, n, limit, step, needInvert)
    ELSE <<>>

\* The SelectionIndexes made from the indices, virtual from realSize on.
indexSelection(is, mode, realSize) ==
    [k \in 1..Len(is) |-> Selection(is[k], mode /\ is[k] >= realSize, -1)]

\* The write-mode prologue of evalArray/evalArrayElement: EnforceArraySelection
\* on every footprint, stopping at the first error. e is [h, fps, err].
RECURSIVE enforceArrayAll(_, _, _)
enforceArrayAll(e, size, i) ==
    IF e.err # "" \/ i > Len(e.fps) THEN e
    ELSE LET stored(s) == [h |-> s.h, fps |-> [e.fps EXCEPT ![i] = s.fp], err |-> s.err]
         IN enforceArrayAll(stored(EnforceArraySelection(e.h, e.fps[i], size)), size, i + 1)

\* The write-mode prologue of evalField. e is [h, err].
RECURSIVE enforceObjectAll(_, _, _)
enforceObjectAll(e, fps, i) ==
    IF e.err # "" \/ i > Len(fps) THEN e
    ELSE enforceObjectAll(EnforceObjectSelection(e.h, fps[i]), fps, i + 1)

\* The loop of evalField over the expanded footprints.
RECURSIVE fieldLoop(_, _, _, _, _, _, _)
fieldLoop(cx, h, w, fps, node, i, acc) ==
    IF i > Len(fps) THEN Res(acc, h, w, "")
    ELSE LET ref == HolderPtr(fps[i])
         IN IF ~IsMap(ref) THEN fieldLoop(cx, h, w, fps, node, i + 1, acc)
            ELSE IF MapHas(h, ref, node.Value)
            THEN fieldLoop(cx, h, w, fps, node, i + 1,
                     Append(acc, Footprint("map", ref,
                                   <<Selection(node.Value, FALSE, -1)>>, FALSE, 0)))
            ELSE IF cx.writeMode
            THEN LET r == MakeMap(h)
                 IN fieldLoop(cx, MapPut(r.h, ref, node.Value, r.v), w, fps, node, i + 1,
                        Append(acc, Footprint("map", ref,
                                      <<Selection(node.Value, TRUE, -1)>>, FALSE, 0)))
            ELSE fieldLoop(cx, h, Append(w, "cannot find the field"), fps, node, i + 1, acc)

\* Every handler takes the state r its predecessor left: the footprints, the
\* heap and the warnings (r.err is "").
evalField(cx, r, node) ==
    LET enforced(e) ==
            IF e.err # "" THEN Res(<<>>, e.h, r.w, e.err)
            ELSE fieldLoop(cx, e.h, r.w, expandFootprints(e.h, r.fps, FALSE), node, 1, <<>>)
    IN enforced(IF cx.writeMode THEN enforceObjectAll([h |-> r.h, err |-> ""], r.fps, 1)
                ELSE [h |-> r.h, err |-> ""])

\* The loop of evalArray over the expanded footprints.
RECURSIVE arrayLoop(_, _, _, _, _, _)
arrayLoop(cx, w, fps, node, i, acc) ==
    IF i > Len(fps) THEN [fps |-> acc, w |-> w]
    ELSE LET arr == HolderPtr(fps[i])
         IN IF IsArr(arr)
            THEN LET p == inferArrayNode(arr.len, node)
                     is == sliceLoop(p.base, arr.len, p.limit, p.step, p.needInvert)
                 IN arrayLoop(cx, w, fps, node, i + 1,
                       Append(acc, Footprint("arr", arr,
                                     indexSelection(is, cx.writeMode, fps[i].RealSize),
                                     FALSE, 0)))
            ELSE arrayLoop(cx, Append(w, "cannot use a index number to find a element in a non-array object"),
                           fps, node, i + 1, acc)

\* The size evalArray asks EnforceArraySelection for.
arrayTail(node) ==
    IF node.Params[1].Value = 0 /\ node.Params[2].Value = 0 /\ node.Params[3].Value = 0
    THEN -1
    ELSE IF ~node.Params[2].Known THEN node.Params[1].Value + 1
    ELSE node.Params[2].Value

evalArray(cx, r, node) ==
    LET looped(e, l) == Res(l.fps, e.h, l.w, "")
        enforced(e) ==
            IF e.err # "" THEN Res(<<>>, e.h, r.w, e.err)
            ELSE looped(e, arrayLoop(cx, r.w, expandFootprints(e.h, e.fps, FALSE), node, 1, <<>>))
    IN enforced(IF cx.writeMode
                THEN enforceArrayAll([h |-> r.h, fps |-> r.fps, err |-> ""], arrayTail(node), 1)
                ELSE [h |-> r.h, fps |-> r.fps, err |-> ""])

\* Mutant of elementIndex: a negative index is not wrapped.
elementIndexNoWrap(n, value) ==
    IF value >= 0 /\ value <= n - 1 THEN <<value>> ELSE <<>>

\* The index evalArrayElement selects in an array of length n (-1: none).
elementIndex(n, value) ==
    LET i == IF value >= 0 /\ value <= n - 1 THEN value
             ELSE IF value >= -n THEN value + n
             ELSE -1
    IN IF i >= 0 /\ i < n THEN <<i>> ELSE <<>>

\* Mutant of indexError: every index is accepted in write mode.
indexErrorNone(mode, node) == ""

\* The index evalArrayElement refuses in write mode ("" when it accepts it).
indexError(mode, node) ==
    IF mode /\ node.Value < 0 THEN "cannot use a negative index in set mode"
    ELSE IF mode /\ ~node.Known THEN "index unknown in set mode"
    ELSE ""

RECURSIVE elementLoop(_, _, _, _, _, _)
elementLoop(cx, w, fps, node, i, acc) ==
    IF i > Len(fps) THEN [fps |-> acc, w |-> w]
    ELSE LET arr == HolderPtr(fps[i])
         IN IF IsArr(arr)
            THEN elementLoop(cx, w, fps, node, i + 1,
                    Append(acc, Footprint("arr", arr,
                                  indexSelection(elementIndex(arr.len, node.Value),
                                                 cx.writeMode, fps[i].RealSize),
                                  FALSE, 0)))
            ELSE elementLoop(cx, Append(w, "cannot use a index number to find a element in a non-array object"),
                             fps, node, i + 1, acc)

evalArrayElement(cx, r, node) ==
    LET looped(e, l) == Res(l.fps, e.h, l.w, "")
        enforced(e) ==
            IF e.err # "" THEN Res(<<>>, e.h, r.w, e.err)
            ELSE looped(e, elementLoop(cx, r.w, expandFootprints(e.h, e.fps, FALSE), node, 1, <<>>))
    IN IF indexError(cx.writeMode, node) # ""
       THEN Res(<<>>, r.h, r.w, indexError(cx.writeMode, node))
       ELSE enforced(IF cx.writeMode
                     THEN enforceArrayAll([h |-> r.h, fps |-> r.fps, err |-> ""], node.Value + 1, 1)
                     ELSE [h |-> r.h, fps |-> r.fps, err |-> ""])

evalWildcard(cx, r, node) ==
    LET all(fp, s) == IF s.err THEN fp ELSE s.fp
        selected(fps) == [i \in 1..Len(fps) |-> all(fps[i], SelectAll(r.h, fps[i], cx.ord))]
    IN Res(selected(expandFootprints(r.h, r.fps, FALSE)), r.h, r.w, "")

\* recursivelyCollectFootprint: the footprint, then its children in order.
RECURSIVE recursivelyCollectFootprint(_, _, _)
RECURSIVE collectChildren(_, _, _, _)
collectChildren(h, ord, children, i) ==
    IF i > Len(children) THEN <<>>
    ELSE recursivelyCollectFootprint(h, ord, children[i])
         \o collectChildren(h, ord, children, i + 1)
recursivelyCollectFootprint(h, ord, footprint) ==
    LET children(s) == IF s.err THEN <<>> ELSE collectChildren(h, ord, Expand(h, s.fp).fps, 1)
    IN <<LeaveItAsItIs(footprint)>> \o children(SelectAll(h, footprint, ord))

evalRecursive(cx, r, node) ==
    Res(collectChildren(r.h, cx.ord, expandFootprints(r.h, r.fps, FALSE), 1), r.h, r.w, "")

\* evalInt / evalBool / evalFloat: one NonRefFootprint per expanded footprint.
evalLiteral(cx, r, value) ==
    LET literals(fps) == [i \in 1..Len(fps) |-> NewFootprint(value, NilInfo)]
    IN Res(literals(expandFootprints(r.h, r.fps, FALSE)), r.h, r.w, "")

RECURSIVE walk(_, _, _)
RECURSIVE listLoop(_, _, _, _)
RECURSIVE unionLoop(_, _, _, _, _)
RECURSIVE filterElement(_, _, _, _)
RECURSIVE filterElements(_, _, _, _, _)
RECURSIVE filterLoop(_, _, _, _, _)

\* evalList: the nodes in order, stopping at the first error. r is what the
\* node before nodes[i] returned.
listLoop(cx, r, nodes, i) ==
    IF r.err # "" THEN Res(<<>>, r.h, r.w, r.err)
    ELSE IF i > Len(nodes) THEN r
    ELSE listLoop(cx, walk(cx, r, nodes[i]), nodes, i + 1)
evalList(cx, r, node) == listLoop(cx, r, node.Nodes, 1)

\* Mutant of unionAppend: a child's footprints go in front of the earlier ones.
unionAppendFront(acc, list) == list \o acc

\* result = append(result, list...)
unionAppend(acc, list) == acc \o list

\* evalUnion: every child list on the same footprints, results concatenated
\* in u.fps.
unionLoop(cx, footprints, u, lists, i) ==
    IF u.err # "" \/ i > Len(lists) THEN u
    ELSE LET joined(c) == IF c.err # "" THEN Res(footprints, c.h, c.w, c.err)
                          ELSE Res(unionAppend(u.fps, c.fps), c.h, c.w, "")
         IN unionLoop(cx, footprints,
                      joined(evalList(cx, Res(footprints, u.h, u.w, ""), lists[i])),
                      lists, i + 1)
evalUnion(cx, r, node) == unionLoop(cx, r.fps, Res(<<>>, r.h, r.w, ""), node.Nodes, 1)

\* Mutant of filterElement: an error of the sub-expression ends the query.
filterElementStrict(cx, r, element, node) ==
    LET strict(l) ==
            IF l.err # "" THEN Res(<<>>, l.h, l.w, l.err)
            ELSE Res(IF Len(l.fps) > 0 THEN Append(r.fps, element) ELSE r.fps, l.h, l.w, "")
    IN strict(evalList(cx, Res(<<element>>, r.h, r.w, ""), node.Left))

\* The body of the inner loop of evalFilter: one element against the filter.
\* r.fps is the footprints kept so far.
filterElement(cx, r, element, node) ==
    LET keep(s, pass) == Res(IF pass THEN Append(r.fps, element) ELSE r.fps, s.h, s.w, "")
        fail(s, e) == Res(<<>>, s.h, s.w, e)
        compared(s, c) ==
            Res(IF c.pass THEN Append(r.fps, element) ELSE r.fps, s.h,
                IF c.err # "" THEN Append(s.w, c.err) ELSE s.w, "")
        both(s, lefts, rights) ==
            IF Len(rights) = 0 THEN keep(s, FALSE)
            ELSE IF Len(rights) > 1 THEN fail(s, "can only compare one element at a time")
            ELSE compared(s, genericCompare(node.Operator,
                                            HolderPtr(lefts[1]), HolderPtr(rights[1])))
        right(lefts, s) ==
            IF s.err # "" THEN fail(s, s.err)
            ELSE both(s, lefts, expandFootprints(s.h, s.fps, TRUE))
        left(l, lefts) ==
            IF Len(lefts) = 0 THEN keep(l, FALSE)
            ELSE IF Len(lefts) > 1 THEN fail(l, "can only compare one element at a time")
            ELSE right(lefts, evalList(cx, Res(<<element>>, l.h, l.w, ""), node.Right))
        first(l) ==
            IF node.Operator = "exists" THEN keep(l, Len(l.fps) > 0)
            ELSE IF l.err # "" THEN fail(l, l.err)
            ELSE left(l, expandFootprints(l.h, l.fps, TRUE))
    IN first(evalList(cx, Res(<<element>>, r.h, r.w, ""), node.Left))

\* The inner loop of evalFilter over the elements of one footprint.
filterElements(cx, r, elements, node, i) ==
    IF r.err # "" \/ i > Len(elements) THEN r
    ELSE filterElements(cx, filterElement(cx, r, LeaveItAsItIs(elements[i]), node),
                        elements, node, i + 1)

\* The outer loop of evalFilter over the expanded footprints.
filterLoop(cx, r, fps, node, i) ==
    IF r.err # "" \/ i > Len(fps) THEN r
    ELSE LET selected(a) == IF a.err THEN r
                            ELSE filterElements(cx, r, Expand(r.h, a.fp).fps, node, 1)
         IN filterLoop(cx, selected(SelectAll(r.h, fps[i], cx.ord)), fps, node, i + 1)
evalFilter(cx, r, node) ==
    filterLoop(cx, Res(<<>>, r.h, r.w, ""), expandFootprints(r.h, r.fps, FALSE), node, 1)

walk(cx, r, node) ==
    CASE node.type = "List" -> evalList(cx, r, node)
      [] node.type = "Field" -> evalField(cx, r, node)
      [] node.type = "Array" -> evalArray(cx, r, node)
      [] node.type = "Int" -> evalLiteral(cx, r, IntV(node.Value))
      [] node.type = "Bool" -> evalLiteral(cx, r, BoolV(node.Value))
      [] node.type = "Float" -> evalLiteral(cx, r, FloatV(node.Value))
      [] node.type = "Wildcard" -> evalWildcard(cx, r, node)
      [] node.type = "Recursive" -> evalRecursive(cx, r, node)
      [] node.type = "Union" -> evalUnion(cx, r, node)
      [] node.type = "Filter" -> evalFilter(cx, r, node)
      [] node.type = "ArrayElement" -> evalArrayElement(cx, r, node)
      [] OTHER -> Res(r.fps, r.h, r.w, "unexpected Node")

\* ------------------------------------------------------------------ Jsonpath
\* j.Data(): j.dataHolder[0]
Data(h, dh) == ArrGet(h, dh, 0)

\* j.FindResult()
FindResult(cx, h, w, dh, root) ==
    IF Len(root.Nodes) = 0 THEN Res(<<>>, h, w, "cannot handle empty expression")
    ELSE evalList(cx, Res(<<SelectAll(h, NewFootprint(dh, NilInfo), cx.ord).fp>>, h, w, ""),
                  root)

\* The UpdateAll loop of Set, stopping at the first error. e is [h, err].
RECURSIVE updateLoop(_, _, _, _)
updateLoop(e, fps, change, i) ==
    IF e.err # "" \/ i > Len(fps) THEN e
    ELSE updateLoop(UpdateAll(e.h, fps[i], change), fps, change, i + 1)

\* A run-time panic ends the program: no call follows it.
IsPanic(e) == e \in {"panic: index out of range", "panic: makeslice: len out of range"}

\* One record of the history: the call, the change it was given (Set), the
\* content of the document and the number of warnings before it, and the
\* error it returned.
Call(op, change, before, warned, e) ==
    [op |-> op, change |-> change, before |-> before, warned |-> warned, err |-> e]

\* The iteration orders a call can meet on this heap: one order for each map
\* that holds, or can come to hold within the call, more than one key (a call
\* in write mode adds keys).
OrdersFor(h, mode) ==
    [{a \in DOMAIN h : /\ h[a].k = "map"
                       /\ Cardinality(DOMAIN h[a].m) >= (IF mode THEN 1 ELSE 2)}
        -> KeyOrders]

\* j.Get(), on a compiled path that has been given its document.
Get ==
    /\ Len(log) < MaxCalls
    /\ ~IsPanic(err)
    /\ parser.type = "List" /\ dataHolder.len > 0
    /\ LET pointers(fps) == [i \in 1..Len(fps) |-> HolderPtr(fps[i])]
           returned(r) ==
               /\ heap' = r.h
               /\ warnings' = r.w
               /\ err' = r.err
               /\ result' = IF r.err # "" THEN <<>>
                            ELSE pointers(expandFootprints(r.h, r.fps, TRUE))
       IN \E ord \in OrdersFor(heap, FALSE) :
            returned(FindResult(Ctx(FALSE, ord), heap, warnings, dataHolder, parser))
    /\ writeMode' = FALSE
    /\ log' = Append(log, Call("Get", Null, Tree(heap, Data(heap, dataHolder)),
                               Len(warnings), err'))
    /\ UNCHANGED <<dataHolder, parser>>

\* The values a caller passes to Set.
Changes == {IntV(7), Obj([k \in {"a"} |-> IntV(7)]), List(<<IntV(7)>>)}

\* j.Set(change); the caller builds change on the heap first.
Set(change) ==
    /\ Len(log) < MaxCalls
    /\ ~IsPanic(err)
    /\ parser.type = "List" /\ dataHolder.len > 0
    /\ LET updated(r, u) ==
               /\ heap' = u.h
               /\ warnings' = r.w
               /\ err' = u.err
           found(c, r) ==
               updated(r, IF r.err # "" THEN [h |-> r.h, err |-> r.err]
                          ELSE updateLoop([h |-> r.h, err |-> ""], r.fps, c.v, 1))
           built(c) ==
               \E ord \in OrdersFor(c.h, TRUE) :
                   found(c, FindResult(Ctx(TRUE, ord), c.h, warnings, dataHolder, parser))
       IN built(Alloc(heap, change, 0))
    /\ writeMode' = TRUE
    /\ log' = Append(log, Call("Set", change, Tree(heap, Data(heap, dataHolder)),
                               Len(warnings), err'))
    /\ UNCHANGED <<dataHolder, parser, result>>

Next == Get \/ \E change \in Changes : Set(change)

\* New(name, expr) followed by InitData(doc): the compiled path holds the
\* document doc, whose arrays have `spare` unused capacity.
Start(doc, spare, expr) ==
    LET r == Alloc(<<>>, doc, spare)
    IN /\ heap = Append(r.h, ArrObj(<<r.v>>))
       /\ dataHolder = ArrV(Len(r.h) + 1, 1, 1)
       /\ parser = expr
       /\ writeMode = FALSE
       /\ warnings = <<>>
       /\ result = <<>>
       /\ err = ""
       /\ log = <<>>

\* ------------------------------------------------------------------ documents
\* Arrays of distinct scalars of every length up to MaxLen.
ScalarArray(n) == List([i \in 1..n |-> IntV(10 + i - 1)])
ScalarArrays == {ScalarArray(n) : n \in 0..MaxLen}

\* The last call and the document it ran on.
Last == log[Len(log)]
Doc == Tree(heap, Data(heap, dataHolder))
ResultTrees == [i \in 1..Len(result) |-> Tree(heap, result[i])]

\* ------------------------------------------------------------------ slices
\* $[x:y:z] for every start and end in -MaxIdx..MaxIdx or omitted, and
\* every step in -MaxStep..MaxStep or omitted.
MaxStep == 2
Unknown == ParamsEntry(0, FALSE)
Known(v) == ParamsEntry(v, TRUE)
Params == {Unknown} \cup {Known(v) : v \in -MaxIdx..MaxIdx}
Steps == {Unknown} \cup {Known(v) : v \in -MaxStep..MaxStep}
SliceExprs == {ListNode(<<ArrayNode(x, y, z)>>) : x \in Params, y \in Params, z \in Steps}

InitSlice ==
    \E doc \in ScalarArrays, e \in SliceExprs : Start(doc, 0, e)
SpecSlice == InitSlice /\ [][Next]_vars

\* The slice of the claim: start and end wrap when negative and are clamped
\* to the array, the step defaults to 1 (also when 0), the end is excluded.
Wrap(v, n) == IF v < 0 THEN v + n ELSE v
Clamp(v, lo, hi) == IF v < lo THEN lo ELSE IF v > hi THEN hi ELSE v
RefStep(z) == IF z.Known /\ z.Value # 0 THEN z.Value ELSE 1
RefStart(n, x, c) ==
    IF c > 0 THEN (IF x.Known THEN Clamp(Wrap(x.Value, n), 0, n) ELSE 0)
    ELSE (IF x.Known THEN Clamp(Wrap(x.Value, n), -1, n - 1) ELSE n - 1)
RefEnd(n, y, c) ==
    IF c > 0 THEN (IF y.Known THEN Clamp(Wrap(y.Value, n), 0, n) ELSE n)
    ELSE (IF y.Known THEN Clamp(Wrap(y.Value, n), -1, n - 1) ELSE -1)
RefIndices(n, node) ==
    LET c == RefStep(node.Params[3])
        a == RefStart(n, node.Params[1], c)
        b == RefEnd(n, node.Params[2], c)
        K == {k \in 0..n : IF c > 0 THEN a + k * c < b ELSE a + k * c > b}
    IN [j \in 1..Cardinality(K) |-> a + (j - 1) * c]

IsSliceExpr == Len(parser.Nodes) = 1 /\ parser.Nodes[1].type = "Array"
AfterGetOnList == Len(log) > 0 /\ Last.op = "Get" /\ Last.before.t = "list"

\* C4: Get with a slice [a:b:c] on an array returns exactly the elements at
\* the indices from a stepping by c up to but excluding b (a and b wrapped
\* and clamped, step 0 as step 1), in stepping order, and no error.
C4_SliceRead ==
    (AfterGetOnList /\ IsSliceExpr) =>
        LET A == Last.before.e
            is == RefIndices(Len(A), parser.Nodes[1])
        IN /\ err = ""
           /\ ResultTrees = [j \in 1..Len(is) |-> A[is[j] + 1]]

\* Where the code leaves the slice of the claim: a start below -len with a
\* negative step.
StartBelowBackward ==
    LET node == parser.Nodes[1]
    IN /\ node.Params[1].Known
       /\ node.Params[1].Value < -Len(Last.before.e)
       /\ RefStep(node.Params[3]) < 0
C4_SliceReadElsewhere ==
    (AfterGetOnList /\ IsSliceExpr /\ ~StartBelowBackward) =>
        LET A == Last.before.e
            is == RefIndices(Len(A), parser.Nodes[1])
        IN /\ err = ""
           /\ ResultTrees = [j \in 1..Len(is) |-> A[is[j] + 1]]

\* ------------------------------------------------------------------ indices
\* $[n] for n in -MaxIdx..MaxIdx, $[] and $[a:b] for 0 <= a < b <= MaxIdx, on
\* arrays with and without spare capacity, an object and a scalar.
IndexExprs ==
    {ListNode(<<ArrayElementNode(p)>>) : p \in Params}
    \cup {ListNode(<<ArrayNode(Known(a), Known(b), Unknown)>>) :
            a \in 0..MaxIdx, b \in 1..MaxIdx}
IndexDocs == ScalarArrays \cup {Obj([k \in {"a"} |-> IntV(10)]), IntV(10)}

InitIndex ==
    \E doc \in IndexDocs, spare \in 0..MaxSpare, e \in IndexExprs : Start(doc, spare, e)
SpecIndex == InitIndex /\ [][Next]_vars

IsIndexExpr == Len(parser.Nodes) = 1 /\ parser.Nodes[1].type = "ArrayElement"
AfterGet == Len(log) > 0 /\ Last.op = "Get"
AfterSet == Len(log) > 0 /\ Last.op = "Set"

\* The positions a write through $[n] or $[a:b] selects, and the length it needs.
WriteSelected(node) ==
    IF node.type = "ArrayElement" THEN {node.Value}
    ELSE node.Params[1].Value..(node.Params[2].Value - 1)
WriteSize(node) ==
    IF node.type = "ArrayElement" THEN node.Value + 1 ELSE node.Params[2].Value
IsGrowingWrite(node) ==
    \/ node.type = "ArrayElement" /\ node.Known /\ node.Value >= 0
    \/ /\ node.type = "Array"
       /\ node.Params[1].Known /\ node.Params[2].Known /\ ~node.Params[3].Known
       /\ 0 <= node.Params[1].Value /\ node.Params[1].Value < node.Params[2].Value
Max(a, b) == IF a > b THEN a ELSE b

\* C3: Set with $[n], n >= 0, or $[a:b], 0 <= a < b, on an array of length L
\* returns no error and leaves an array of length max(L, n+1) (max(L, b)):
\* the selected positions hold the change, the others below L their old
\* value, and the appended unselected ones null.
C3_SetGrowsArray ==
    (AfterSet /\ Last.before.t = "list" /\ Len(parser.Nodes) = 1
        /\ IsGrowingWrite(parser.Nodes[1])) =>
        LET A == Last.before.e
            node == parser.Nodes[1]
        IN /\ err = ""
           /\ Doc = List([i \in 1..Max(Len(A), WriteSize(node)) |->
                            IF i - 1 \in WriteSelected(node) THEN Last.change
                            ELSE IF i <= Len(A) THEN A[i] ELSE Null])

\* C3 witness: a Set has grown the array past a gap it filled with null.
C3_Witness ==
    /\ AfterSet /\ Last.before.t = "list" /\ Len(parser.Nodes) = 1
    /\ IsGrowingWrite(parser.Nodes[1])
    /\ err = ""
    /\ Len(Doc.e) > Len(Last.before.e) + 1
    /\ Doc.e[Len(Last.before.e) + 1] = Null
    /\ Doc.e[Len(Doc.e)] = Last.change

\* C5: Get with $[n] returns [A[n]] for 0 <= n < L, [A[n+L]] for -L <= n < 0
\* and nothing otherwise (also on an object or a scalar), never an error.
C5_IndexRead ==
    (AfterGet /\ IsIndexExpr /\ parser.Nodes[1].Known) =>
        LET n == parser.Nodes[1].Value
            L == IF Last.before.t = "list" THEN Len(Last.before.e) ELSE 0
        IN /\ err = ""
           /\ ResultTrees = (IF 0 <= n /\ n < L THEN <<Last.before.e[n + 1]>>
                             ELSE IF -L <= n /\ n < 0 THEN <<Last.before.e[n + L + 1]>>
                             ELSE <<>>)

\* C5 witness: a Get with a negative index has returned an element.
C5_Witness ==
    /\ AfterGet /\ IsIndexExpr /\ parser.Nodes[1].Known
    /\ parser.Nodes[1].Value < 0
    /\ Len(result) = 1

\* ------------------------------------------------------------------ fields
\* Object documents over the keys a and b: a holds a scalar, null, an array,
\* an empty object or an object of the same kind one level down, b a scalar;
\* either key may be absent. Paths are $.k1...kn, n <= MaxDepth.
MaxDepth == 3
Absent == [t |-> "absent", v |-> 0]
ObjOf(va, vb) ==
    Obj([k \in {x \in Keys : (IF x = "a" THEN va ELSE vb) # Absent} |->
            IF k = "a" THEN va ELSE vb])
InnerObjects ==
    {ObjOf(va, vb) : va \in {Absent, IntV(11), Null, Obj(NoKeys), List(<<IntV(12)>>)},
                     vb \in {Absent, IntV(21)}}
FieldDocs ==
    {ObjOf(va, vb) : va \in {Absent, IntV(10), Null, List(<<IntV(12)>>)} \cup InnerObjects,
                     vb \in {Absent, IntV(20)}}
FieldExprs ==
    UNION {{ListNode([i \in 1..n |-> FieldNode(ks[i])]) : ks \in [1..n -> Keys]} :
             n \in 1..MaxDepth}

InitField == \E doc \in FieldDocs, e \in FieldExprs : Start(doc, 0, e)
SpecField == InitField /\ [][Next]_vars

IsFieldPath == \A i \in DOMAIN parser.Nodes : parser.Nodes[i].type = "Field"
PathKeys == [i \in DOMAIN parser.Nodes |-> parser.Nodes[i].Value]

\* Every value that exists on the path before its last key is an object.
RECURSIVE PrefixObjects(_, _)
PrefixObjects(tr, ks) ==
    \/ Len(ks) <= 1
    \/ ks[1] \notin DOMAIN tr.m
    \/ /\ tr.m[ks[1]].t = "obj"
       /\ PrefixObjects(tr.m[ks[1]], Tail(ks))

\* The object tr with c at the path ks: missing keys on the way are made
\* objects, every other key keeps its value.
RECURSIVE PutPath(_, _, _)
PutPath(tr, ks, c) ==
    IF ks = <<>> THEN c
    ELSE Obj([k \in (DOMAIN tr.m) \cup {ks[1]} |->
                IF k = ks[1]
                THEN PutPath(IF ks[1] \in DOMAIN tr.m THEN tr.m[k] ELSE Obj(NoKeys),
                             Tail(ks), c)
                ELSE tr.m[k]])

\* C2: Set with a field path $.k1...kn on an object whose existing values on
\* the path prefix are all objects returns no error and leaves the document
\* with the change at k1...kn, the missing intermediate keys created as
\* objects and every key off the path unchanged.
C2_FieldPathMaterialized ==
    (AfterSet /\ IsFieldPath /\ Last.before.t = "obj"
        /\ PrefixObjects(Last.before, PathKeys)) =>
        /\ err = ""
        /\ Doc = PutPath(Last.before, PathKeys, Last.change)

\* C2 witness: a Set has created two missing levels next to a sibling key
\* that it left alone.
C2_Witness ==
    /\ AfterSet /\ IsFieldPath /\ Len(PathKeys) = 3 /\ err = ""
    /\ Last.before.t = "obj"
    /\ PathKeys[1] \notin DOMAIN Last.before.m
    /\ \E k \in DOMAIN Last.before.m : Doc.m[k] = Last.before.m[k]
    /\ Doc.m[PathKeys[1]].m[PathKeys[2]].m[PathKeys[3]] = Last.change

MaxChildren == 2
Operators == {"<", ">", "==", "!=", "<=", ">="}
Literal == IntV(1)
FilterChildren ==
    {ObjOf(Absent, IntV(20)), ObjOf(IntV(0), IntV(21)), ObjOf(IntV(1), IntV(22)),
     ObjOf(IntV(2), Absent), ObjOf(IntV(1), Absent), ObjOf(StrV(1), IntV(23))}
FilterDocs ==
    UNION {{List(e) : e \in [1..n -> FilterChildren]} : n \in 0..MaxChildren}
    \cup {ObjOf(va, vb) : va, vb \in {Absent, ObjOf(IntV(0), IntV(21)),
                                       ObjOf(IntV(1), IntV(22)), ObjOf(IntV(2), Absent)}}
CompareFilter(operator) ==
    FilterNode(ListNode(<<FieldNode("a")>>), ListNode(<<IntNode(Literal.v)>>), operator)
FilterExprs ==
    {ListNode(<<CompareFilter(operator)>>) : operator \in Operators}
    \cup {ListNode(<<CompareFilter(operator), FieldNode("b")>>) : operator \in Operators}

InitFilter == \E doc \in FilterDocs, e \in FilterExprs : Start(doc, 0, e)
SpecFilter == InitFilter /\ [][Next]_vars

IsFilterExpr ==
    /\ Len(parser.Nodes) \in {1, 2}
    /\ parser.Nodes[1].type = "Filter" /\ parser.Nodes[1].Operator \in Operators
    /\ Len(parser.Nodes) = 2 => parser.Nodes[2].type = "Field"

\* The children of a container, an object's in the key order o.
ChildrenOf(tr, o) ==
    IF tr.t = "list" THEN tr.e
    ELSE LET ks == SeqFilter(o, DOMAIN tr.m, 1) IN [i \in 1..Len(ks) |-> tr.m[ks[i]]]

\* compare(OP, x, lit) of two scalars: true only for values of one kind.
Compare(operator, x, lit) ==
    /\ x.t = lit.t /\ x.t \in {"int", "str"}
    /\ CASE operator = "<" -> x.v < lit.v
         [] operator = ">" -> x.v > lit.v
         [] operator = "==" -> x.v = lit.v
         [] operator = "!=" -> x.v # lit.v
         [] operator = "<=" -> x.v <= lit.v
         [] OTHER -> x.v >= lit.v

\* The children the filter keeps, and what a following .name makes of them.
RECURSIVE Kept(_, _, _, _)
Kept(children, f, operator, lit) ==
    IF children = <<>> THEN <<>>
    ELSE (IF f \in DOMAIN Head(children).m /\ Compare(operator, Head(children).m[f], lit)
          THEN <<Head(children)>> ELSE <<>>)
         \o Kept(Tail(children), f, operator, lit)
RECURSIVE Named(_, _)
Named(children, name) ==
    IF children = <<>> THEN <<>>
    ELSE (IF name \in DOMAIN Head(children).m THEN <<Head(children).m[name]>> ELSE <<>>)
         \o Named(Tail(children), name)

ObjectChildren(tr) ==
    /\ tr.t \in {"list", "obj"}
    /\ \A i \in DOMAIN ChildrenOf(tr, KeySeq) : ChildrenOf(tr, KeySeq)[i].t = "obj"

\* C7: Get with [?(@.f OP lit)] on a container of objects returns the
\* children that have f with compare(OP, child.f, lit) true, in the
\* container's child order (for an object: the order its keys are ranged
\* over), children without f skipped and no error; a following .name gives
\* the name of each kept child that has it.
C7_CompareFilter ==
    (AfterGet /\ IsFilterExpr /\ ObjectChildren(Last.before)) =>
        /\ err = ""
        /\ \E o \in KeyOrders :
              LET kept == Kept(ChildrenOf(Last.before, o), parser.Nodes[1].Left.Nodes[1].Value,
                               parser.Nodes[1].Operator, Literal)
              IN ResultTrees = IF Len(parser.Nodes) = 1 THEN kept
                               ELSE Named(kept, parser.Nodes[2].Value)

\* C7 witness: of two children that both hold f, the filter has kept the
\* second only.
C7_Witness ==
    /\ AfterGet /\ IsFilterExpr /\ Len(parser.Nodes) = 1 /\ err = ""
    /\ Last.before.t = "list" /\ Len(Last.before.e) = 2
    /\ \A i \in 1..2 : Last.before.e[i].t = "obj" /\ "a" \in DOMAIN Last.before.e[i].m
    /\ Last.before.e[1] # Last.before.e[2]
    /\ ResultTrees = <<Last.before.e[2]>>

\* C1: when Set(c) returned no error, every element a following Get with the
\* same expression returns is structurally equal to c.
C1_SetGetRoundTrip ==
    (Len(log) >= 2 /\ log[Len(log) - 1].op = "Set" /\ log[Len(log) - 1].err = ""
        /\ Last.op = "Get") =>
        \A i \in DOMAIN ResultTrees : ResultTrees[i] = log[Len(log) - 1].change

\* ------------------------------------------------------------------ unions
\* $[s1,s2], $[s1,s2].a and $[s1,s2,s3] with every si an index in
\* -1..MaxLen-1 or a key, on arrays of objects and scalars and on objects.
UnionSelectors ==
    {ListNode(<<ArrayElementNode(Known(n))>>) : n \in -1..(MaxLen - 1)}
    \cup {ListNode(<<FieldNode(k)>>) : k \in Keys}
UnionExprs ==
    {ListNode(<<UnionNode(<<s1, s2>>)>>) : s1, s2 \in UnionSelectors}
    \cup {ListNode(<<UnionNode(<<s1, s2>>), FieldNode("a")>>) : s1, s2 \in UnionSelectors}
    \cup {ListNode(<<UnionNode([i \in 1..3 |-> ListNode(<<ArrayElementNode(Known(ns[i]))>>)])>>) :
            ns \in [1..3 -> 0..1]}
UnionDocs ==
    {List([i \in 1..n |-> ObjOf(IntV(10 + i - 1), Absent)]) : n \in 0..MaxLen}
    \cup {List(<<ObjOf(IntV(10), Absent), IntV(11)>>),
          ObjOf(ObjOf(IntV(20), Absent), ObjOf(IntV(21), Absent)),
          ObjOf(Absent, IntV(22))}

InitUnion == \E doc \in UnionDocs, e \in UnionExprs : Start(doc, 0, e)
SpecUnion == InitUnion /\ [][Next]_vars

IsUnionExpr ==
    /\ Len(parser.Nodes) \in {1, 2}
    /\ parser.Nodes[1].type = "Union"
    /\ Len(parser.Nodes) = 2 => parser.Nodes[2].type = "Field"

\* What one child selector (an index or a key) selects of the value tr.
Selected(tr, node) ==
    IF node.type = "ArrayElement"
    THEN (IF tr.t # "list" THEN <<>>
          ELSE IF 0 <= node.Value /\ node.Value < Len(tr.e) THEN <<tr.e[node.Value + 1]>>
          ELSE IF -Len(tr.e) <= node.Value /\ node.Value < 0
          THEN <<tr.e[node.Value + Len(tr.e) + 1]>>
          ELSE <<>>)
    ELSE (IF tr.t = "obj" /\ node.Value \in DOMAIN tr.m THEN <<tr.m[node.Value]>> ELSE <<>>)

\* The selections of the children, one after the other as written.
RECURSIVE Concatenated(_, _, _)
Concatenated(tr, lists, i) ==
    IF i > Len(lists) THEN <<>>
    ELSE Selected(tr, lists[i].Nodes[1]) \o Concatenated(tr, lists, i + 1)

\* The field name of every value of vs that is an object holding it.
RECURSIVE FieldOfEach(_, _)
FieldOfEach(vs, name) ==
    IF vs = <<>> THEN <<>>
    ELSE (IF Head(vs).t = "obj" /\ name \in DOMAIN Head(vs).m
          THEN <<Head(vs).m[name]>> ELSE <<>>)
         \o FieldOfEach(Tail(vs), name)

\* C9: Get with a union [s1,...,sn] returns what s1 selects of the incoming
\* value, then what s2 selects of it, and so on in the order written; a
\* following .key is applied to that sequence in that order.
C9_UnionOrder ==
    (AfterGet /\ IsUnionExpr) =>
        /\ err = ""
        /\ ResultTrees =
              IF Len(parser.Nodes) = 1
              THEN Concatenated(Last.before, parser.Nodes[1].Nodes, 1)
              ELSE FieldOfEach(Concatenated(Last.before, parser.Nodes[1].Nodes, 1),
                               parser.Nodes[2].Value)

\* C9 witness: a union that names a later element first has returned the
\* key of the later element before the key of the earlier one.
C9_Witness ==
    /\ AfterGet /\ IsUnionExpr /\ Len(parser.Nodes) = 2 /\ err = ""
    /\ Last.before.t = "list" /\ Len(Last.before.e) = 3
    /\ \A i \in 1..2 : parser.Nodes[1].Nodes[i].Nodes[1].type = "ArrayElement"
    /\ parser.Nodes[1].Nodes[1].Nodes[1].Value = 2
    /\ parser.Nodes[1].Nodes[2].Nodes[1].Value = 0
    /\ Len(ResultTrees) = 2
    /\ ResultTrees[1] = Last.before.e[3].m["a"]
    /\ ResultTrees[2] = Last.before.e[1].m["a"]
    /\ ResultTrees[1] # ResultTrees[2]

\* ------------------------------------------------------------------ descent
\* Documents nested up to MaxNest levels: an object holds under a any
\* smaller document (or nothing) and under b an array (or nothing), an array
\* holds one smaller document. Expressions: $.., $.a.., $..k, $..k.. and
\* $..k..k2.
MaxNest == 3
RECURSIVE DescentTrees(_)
DescentTrees(d) ==
    IF d = 0 THEN {IntV(1)}
    ELSE LET sub == DescentTrees(d - 1)
         IN {IntV(1)}
            \cup {ObjOf(x, y) : x \in sub \cup {Absent}, y \in {Absent, List(<<IntV(3)>>)}}
            \cup {List(<<x>>) : x \in sub}
DescentExprs ==
    {ListNode(<<RecursiveNode>>), ListNode(<<FieldNode("a"), RecursiveNode>>)}
    \cup {ListNode(<<RecursiveNode, FieldNode(k)>>) : k \in Keys}
    \cup {ListNode(<<RecursiveNode, FieldNode(k), RecursiveNode>>) : k \in Keys}
    \cup {ListNode(<<RecursiveNode, FieldNode(k), RecursiveNode, FieldNode(k2)>>) :
            k, k2 \in Keys}

InitDescent == \E doc \in DescentTrees(MaxNest), e \in DescentExprs : Start(doc, 0, e)
SpecDescent == InitDescent /\ [][Next]_vars

EndsInRecursive == parser.Nodes[Len(parser.Nodes)].type = "Recursive"
RecursiveCount == Cardinality({i \in DOMAIN parser.Nodes : parser.Nodes[i].type = "Recursive"})
IsContainer(x) == IsMap(x) \/ IsArr(x)

\* The values a container holds, read from the heap.
ChildValues(h, x) ==
    IF IsMap(x) THEN {h[x.a].m[k] : k \in DOMAIN h[x.a].m}
    ELSE {h[x.a].e[i] : i \in 1..x.len}

\* What a Get whose expression ends in a recursive descent returns, on a
\* document no call has changed (every container is at one path only):
\* no container more than once, and every child of a returned container
\* after it.
DescentOnce ==
    \A i, j \in DOMAIN result :
        (i < j /\ IsContainer(result[i]) /\ IsContainer(result[j])) =>
            result[i].a # result[j].a
DescentParentFirst ==
    \A i \in DOMAIN result :
        IsContainer(result[i]) =>
            \A c \in ChildValues(heap, result[i]) :
                \E j \in DOMAIN result : j > i /\ result[j] = c

\* C8: the footprints a Recursive node produces (for every expression with
\* .., chained ones included) hold the current node and every descendant,
\* a parent before its descendants, and no container twice.
C8_RecursiveDescent ==
    (AfterGet /\ Len(log) = 1 /\ EndsInRecursive) =>
        /\ err = ""
        /\ DescentOnce
        /\ DescentParentFirst
        /\ (Len(parser.Nodes) = 1 => result[1] = Data(heap, dataHolder))

\* Where the code keeps to it: an expression with one recursive descent.
C8_SingleDescent ==
    (AfterGet /\ Len(log) = 1 /\ EndsInRecursive /\ RecursiveCount = 1) =>
        /\ err = ""
        /\ DescentOnce
        /\ DescentParentFirst
        /\ (Len(parser.Nodes) = 1 => result[1] = Data(heap, dataHolder))

\* ------------------------------------------------------------------ refused indices
\* Expressions that hold a single index that is negative or not given: on
\* its own, after and before other segments, in a union branch, and inside
\* the sub-expression of an exists filter and of a comparison filter.
RefusedIndices ==
    {ArrayElementNode(Unknown)} \cup {ArrayElementNode(Known(n)) : n \in -MaxIdx..-1}
ExistsFilter(left) == FilterNode(left, ListNode(<<>>), "exists")
RefusedExprs ==
    UNION {{ListNode(<<b>>),
            ListNode(<<FieldNode("a"), b>>),
            ListNode(<<ArrayElementNode(Known(0)), b>>),
            ListNode(<<b, FieldNode("a")>>),
            ListNode(<<WildcardNode, b>>),
            ListNode(<<RecursiveNode, b>>),
            ListNode(<<FieldNode("a"), ArrayNode(Known(0), Known(-2), Unknown), b>>),
            ListNode(<<UnionNode(<<ListNode(<<b>>), ListNode(<<ArrayElementNode(Known(0))>>)>>)>>),
            ListNode(<<UnionNode(<<ListNode(<<ArrayElementNode(Known(0))>>), ListNode(<<b>>)>>)>>),
            ListNode(<<CompareFilter("=="), b>>),
            ListNode(<<ExistsFilter(ListNode(<<b>>))>>),
            ListNode(<<FilterNode(ListNode(<<b>>), ListNode(<<IntNode(10)>>), "==")>>)} :
           b \in RefusedIndices}
RefusedDocs ==
    ScalarArrays
    \cup {List(<<List(<<IntV(10)>>), List(<<IntV(11)>>)>>),
          List(<<ObjOf(List(<<IntV(10)>>), Absent)>>),
          ObjOf(List(<<IntV(10), IntV(11)>>), Absent),
          ObjOf(ObjOf(IntV(1), Absent), Absent),
          Obj(NoKeys),
          IntV(10)}

InitRefused == \E doc \in RefusedDocs, e \in RefusedExprs : Start(doc, 0, e)
SpecRefused == InitRefused /\ [][Next]_vars

\* The node holds a negative or unspecified single index; inFilter tells
\* whether the sub-expressions of filters are searched too.
RECURSIVE HasRefusedIndex(_, _)
HasRefusedIndex(node, inFilter) ==
    CASE node.type = "ArrayElement" -> node.Value < 0 \/ ~node.Known
      [] node.type \in {"List", "Union"} ->
            \E i \in DOMAIN node.Nodes : HasRefusedIndex(node.Nodes[i], inFilter)
      [] node.type = "Filter" ->
            inFilter /\ (HasRefusedIndex(node.Left, inFilter)
                            \/ HasRefusedIndex(node.Right, inFilter))
      [] OTHER -> FALSE

\* How often the value c occurs in the tree tr.
SubTrees(tr) ==
    IF tr.t = "list" THEN tr.e
    ELSE IF tr.t = "obj" THEN ChildrenOf(tr, KeySeq)
    ELSE <<>>
RECURSIVE Occurrences(_, _)
RECURSIVE OccurrencesIn(_, _, _)
OccurrencesIn(ts, c, i) ==
    IF i > Len(ts) THEN 0 ELSE Occurrences(ts[i], c) + OccurrencesIn(ts, c, i + 1)
Occurrences(tr, c) == (IF tr = c THEN 1 ELSE 0) + OccurrencesIn(SubTrees(tr), c, 1)

\* The call has failed and has put the change nowhere in the document.
Refused ==
    /\ err # ""
    /\ Occurrences(Doc, Last.change) = Occurrences(Last.before, Last.change)

RECURSIVE Slots(_, _)
Slots(h, x) ==
    CASE IsMap(x) -> {<<x.a, k>> : k \in DOMAIN h[x.a].m}
                     \cup UNION {Slots(h, h[x.a].m[k]) : k \in DOMAIN h[x.a].m}
      [] IsArr(x) -> {<<x.a, i>> : i \in 0..(x.len - 1)}
                     \cup UNION {Slots(h, h[x.a].e[i + 1]) : i \in 0..(x.len - 1)}
      [] OTHER -> {}
SlotGet(h, s) == IF h[s[1]].k = "map" THEN h[s[1]].m[s[2]] ELSE h[s[1]].e[s[2] + 1]

\* A caller's later mutation of the container x: a member added to an object,
\* the first element of an array overwritten.
Mutated(h, x) == IF IsMap(x) THEN MapPut(h, x, "b", IntV(9)) ELSE ArrPut(h, x, 0, IntV(9))

\* The slots that hold the change after the last Set.
Written == {s \in Slots(heap, Data(heap, dataHolder)) : Tree(heap, SlotGet(heap, s)) = Last.change}

\* C11: after a Set whose change is an object or an array, each location that
\* holds the change holds its own copy: mutating the value at one such
\* location leaves the value at every other such location as it was.
C11_SetClones ==
    (AfterSet /\ Last.err = "" /\ Last.change.t \in {"obj", "list"})
        => \A p \in Written : \A q \in Written \ {p} :
               Tree(Mutated(heap, SlotGet(heap, p)), SlotGet(Mutated(heap, SlotGet(heap, p)), q))
                   = Last.change

\* ------------------------------------------------------------------ warnings
\* C12: the warnings are those of the most recent call only. Get leaves the
\* document as it is, so two Gets in a row produce the same diagnostics: after
\* the second the list is as long as it was after the first.
C12_WarningsOfLastCall ==
    (Len(log) = 2 /\ log[1].op = "Get" /\ log[2].op = "Get")
        => Len(warnings) = log[2].warned

\* ------------------------------------------------------------------ results
\* C13: every element Get returns is a value found in the document the call
\* ran on (the document itself or a value nested in it).
C13_ResultsFromDocument ==
    AfterGet => \A i \in DOMAIN result : Occurrences(Last.before, ResultTrees[i]) > 0

\* ------------------------------------------------------------------ determinism
\* C14: Get on the same expression and the same document returns the same
\* elements in the same order: a Get that follows a Get (the document is as
\* it was) returns what the first returned.
C14_GetDeterministic ==
    [][(/\ Len(log) = 1 /\ log[1].op = "Get"
        /\ Len(log') = 2 /\ log'[2].op = "Get")
           => ResultTrees' = ResultTrees]_vars

\* ------------------------------------------------------------------ parser
\* A text is a sequence of one-character strings; "eof" is what next returns
\* at the end of the input. The texts parsed here hold no backslash escapes.
Digits == {"0", "1", "2", "3", "4", "5", "6", "7", "8", "9"}

isTerminator(r) ==
    r \in {" ", "\t", "\r", "\n", "eof", ".", ",", "[", "]", "$", "@", "{", "}"}
isAlphaNumeric(r) ==
    \/ r = "_" \/ r \in Digits
    \/ r \in {"a", "b", "c", "d", "e", "f", "g", "h", "i", "j", "k", "l", "m",
              "n", "o", "p", "q", "r", "s", "t", "u", "v", "w", "x", "y", "z"}

\* string(runes)
RECURSIVE Name(_)
Name(cs) == IF Len(cs) = 0 THEN "" ELSE cs[1] \o Name(Tail(cs))

\* The scanning fields of a Parser are [input, pos, start, width], positions
\* counted from 0. p.backup() is [p EXCEPT !.pos = @ - p.width].
next(p) ==
    IF p.pos >= Len(p.input) THEN [p |-> [p EXCEPT !.width = 0], r |-> "eof"]
    ELSE [p |-> [p EXCEPT !.pos = @ + 1, !.width = 1], r |-> p.input[p.pos + 1]]
consumeText(p) == [p |-> [p EXCEPT !.start = p.pos], value |-> SubSeq(p.input, p.start + 1, p.pos)]
HasPrefix(p, prefix) ==
    /\ p.pos + Len(prefix) <= Len(p.input)
    /\ SubSeq(p.input, p.pos + 1, p.pos + Len(prefix)) = prefix

\* strconv.Atoi: an optional sign and one or more digits.
Atoi(cs) ==
    LET RECURSIVE value(_, _)
        value(ds, acc) ==
            IF Len(ds) = 0 THEN acc
            ELSE value(Tail(ds), 10 * acc + (CHOOSE d \in 0..9 : ToString(d) = ds[1]))
        signed == Len(cs) > 0 /\ cs[1] \in {"+", "-"}
        digits == IF signed THEN Tail(cs) ELSE cs
        ok == Len(digits) > 0 /\ \A i \in DOMAIN digits : digits[i] \in Digits
    IN [ok |-> ok,
        n |-> IF ~ok THEN 0
              ELSE IF signed /\ cs[1] = "-" THEN 0 - value(digits, 0) ELSE value(digits, 0)]

\* p.findNextRune(r, cur): the cursor behind the next r, or an error.
RECURSIVE findNextRune(_, _, _)
findNextRune(p, r, escapeMode) ==
    LET step(n) ==
            IF n.r = r /\ ~escapeMode THEN [p |-> n.p, err |-> ""]
            ELSE IF n.r = "\\" /\ ~escapeMode THEN findNextRune(n.p, r, TRUE)
            ELSE IF n.r = "eof" THEN [p |-> n.p, err |-> "cannot find the next"]
            ELSE findNextRune(n.p, r, FALSE)
    IN step(next(p))

\* splitByComma(str), with findRune; <<>> stands for the nil it returns on
\* an unpaired quote.
splitByComma(str) ==
    LET RECURSIVE findRune(_, _, _, _)
        findRune(rs, target, i, escapeMode) ==
            IF i > Len(rs) THEN -1
            ELSE IF rs[i] = target /\ ~escapeMode THEN i - 1
            ELSE IF rs[i] = "\\" /\ ~escapeMode THEN findRune(rs, target, i + 1, TRUE)
            ELSE findRune(rs, target, i + 1, FALSE)
        RECURSIVE loop(_, _, _)
        loop(i, base, acc) ==
            LET quoted(nx) == IF nx = -1 THEN <<>> ELSE loop(i + nx + 2, base, acc)
            IN IF i >= Len(str) THEN Append(acc, SubSeq(str, base + 1, Len(str)))
               ELSE IF str[i + 1] = "," THEN loop(i + 1, i + 1, Append(acc, SubSeq(str, base + 1, i)))
               ELSE IF str[i + 1] \in {"'", "\""}
               THEN quoted(findRune(SubSeq(str, i + 2, Len(str)), str[i + 1], 1, FALSE))
               ELSE loop(i + 1, base, acc)
    IN loop(0, 0, <<>>)

RECURSIVE Parse(_)
RECURSIVE parseText(_)
RECURSIVE parseInsideAction(_)
RECURSIVE parseArray(_)
RECURSIVE parseFilter(_)

\* parseAction(name, text): [err, Root], Root the ListNode of the action.
parseAction(text) ==
    LET unwrapped(q) == IF q.err # "" THEN q ELSE [q EXCEPT !.Root = q.Root.Nodes[1]]
    IN unwrapped(Parse(<<"{">> \o text \o <<"}">>))

\* A parse under way is [p, root, cur, err]: the cursor, the nodes of p.Root,
\* the nodes of the ListNode being filled, and the error ("" for none).
\* p.parseNumber(cur), the cursor standing before the number.
parseNumber(s) ==
    LET RECURSIVE scan(_)
        scan(p) ==
            LET step(n) == IF n.r # "." /\ n.r \notin Digits
                           THEN [n.p EXCEPT !.pos = @ - n.p.width] ELSE scan(n.p)
            IN step(next(p))
        signed(n) == IF n.r \in {"+", "-"} THEN n.p ELSE s.p
        isFloat(cs) == /\ Cardinality({i \in DOMAIN cs : cs[i] = "."}) = 1
                       /\ \E i \in DOMAIN cs : cs[i] \in Digits
        number(c, i) ==
            IF i.ok THEN parseInsideAction([s EXCEPT !.p = c.p, !.cur = Append(@, IntNode(i.n))])
            ELSE IF isFloat(c.value)
            THEN parseInsideAction([s EXCEPT !.p = c.p, !.cur = Append(@, FloatNode(Name(c.value)))])
            ELSE [s EXCEPT !.p = c.p, !.err = "cannot parse number"]
        made(c) == number(c, Atoi(c.value))
    IN made(consumeText(scan(signed(next(s.p)))))

\* p.parseIdentifier(cur), the cursor standing before the identifier.
parseIdentifier(s) ==
    LET RECURSIVE scan(_)
        scan(p) ==
            LET step(n) == IF isTerminator(n.r)
                           THEN [n.p EXCEPT !.pos = @ - n.p.width] ELSE scan(n.p)
            IN step(next(p))
        node(value) == IF value \in {"true", "false"} THEN BoolNode(value = "true")
                       ELSE IdentifierNode(value)
        made(c) == parseInsideAction([s EXCEPT !.p = c.p, !.cur = Append(@, node(Name(c.value)))])
    IN made(consumeText(scan(s.p)))

\* p.parseField(cur), with p.advance().
parseField(s) ==
    LET RECURSIVE advance(_)
        advance(p) ==
            LET step(n) == IF n.r = "\\" THEN advance(next(n.p).p)
                           ELSE IF isTerminator(n.r) THEN [n.p EXCEPT !.pos = @ - n.p.width]
                           ELSE advance(n.p)
            IN step(next(p))
        node(value) == IF value = <<"*">> THEN WildcardNode
                       ELSE FieldNode(Name(SelectSeq(value, LAMBDA ch : ch # "\\")))
        made(c) == parseInsideAction([s EXCEPT !.p = c.p, !.cur = Append(@, node(c.value))])
    IN made(consumeText(advance(consumeText(s.p).p)))

\* p.parseRecursive(cur), the cursor standing before "..".
parseRecursive(s) ==
    LET after(t) == IF isAlphaNumeric(next(t.p).r) THEN parseField(t) ELSE parseInsideAction(t)
    IN IF Len(s.cur) > 0 /\ s.cur[Len(s.cur)].type = "Recursive"
       THEN [s EXCEPT !.err = "invalid multiple recursive descent"]
       ELSE after([s EXCEPT !.p = [s.p EXCEPT !.pos = @ + 2, !.start = s.p.pos + 2],
                            !.cur = Append(@, RecursiveNode)])

\* p.parseQuote(cur, end), the opening quote read; with UnquoteExtend, whose
\* walk over escapes (strconv.UnquoteChar) no text here reaches.
parseQuote(s, end) ==
    LET RECURSIVE scan(_)
        scan(p) ==
            LET step(n) ==
                    IF n.r \in {"eof", "\n"} THEN [p |-> n.p, err |-> "unterminated quoted string"]
                    ELSE IF n.r = end /\ n.p.input[n.p.pos - 1] # "\\" THEN [p |-> n.p, err |-> ""]
                    ELSE scan(n.p)
            IN step(next(p))
        unquoted(c) ==
            IF Len(c.value) < 2 \/ c.value[1] # c.value[Len(c.value)]
            THEN [s EXCEPT !.p = c.p, !.err = "unquote string error"]
            ELSE parseInsideAction([s EXCEPT !.p = c.p,
                     !.cur = Append(@, TextNode(Name(SubSeq(c.value, 2, Len(c.value) - 1))))])
        made(f) == IF f.err # "" THEN [s EXCEPT !.p = f.p, !.err = f.err]
                   ELSE unquoted(consumeText(f.p))
    IN made(scan(s.p))

\* p.parseArray(cur), the "[" read.
parseArray(s) ==
    LET RECURSIVE scan(_)
        scan(p) ==
            LET quoted(f) == IF f.err # "" THEN f ELSE scan(f.p)
                step(n) ==
                    IF n.r \in {"eof", "\n"} THEN [p |-> n.p, err |-> "unterminated array"]
                    ELSE IF n.r \in {"'", "\""} THEN quoted(findNextRune(n.p, n.r, FALSE))
                    ELSE IF n.r = "]" THEN [p |-> n.p, err |-> ""]
                    ELSE scan(n.p)
            IN step(next(p))
        RECURSIVE trim(_, _)
        trim(cs, cut) ==
            IF Len(cs) = 0 THEN cs
            ELSE IF cs[1] \in cut THEN trim(Tail(cs), cut)
            ELSE IF cs[Len(cs)] \in cut THEN trim(SubSeq(cs, 1, Len(cs) - 1), cut)
            ELSE cs
        \* sliceOperatorRex: up to three parts -?\d* set apart by ":".
        RECURSIVE parts(_, _, _)
        parts(cs, i, acc) ==
            IF i > Len(cs) THEN acc
            ELSE IF cs[i] = ":" THEN parts(cs, i + 1, Append(acc, <<>>))
            ELSE parts(cs, i + 1, [acc EXCEPT ![Len(acc)] = Append(@, cs[i])])
        isPart(cs) == \A i \in DOMAIN cs : cs[i] \in Digits \/ (i = 1 /\ cs[i] = "-")
        entry(cs) == IF Len(cs) = 0 THEN ParamsEntry(0, FALSE) ELSE ParamsEntry(Atoi(cs).n, TRUE)
        isNumber(cs) == Len(cs) = 0 \/ Atoi(cs).ok
        param(v, i) == IF i > Len(v) THEN ParamsEntry(0, FALSE) ELSE entry(v[i])
        appended(c, node) == parseInsideAction([s EXCEPT !.p = c.p, !.cur = Append(@, node)])
        failed(c, e) == [s EXCEPT !.p = c.p, !.err = e]
        sliced(c, text, v) ==
            IF Len(v) > 3 \/ \E i \in DOMAIN v : ~isPart(v[i])
            THEN failed(c, "invalid array index")
            ELSE IF \E i \in DOMAIN v : ~isNumber(v[i])
            THEN failed(c, "array index is not a number")
            ELSE IF Len(v) = 1 THEN appended(c, ArrayElementNode(entry(v[1])))
            ELSE appended(c, ArrayNode(param(v, 1), param(v, 2), param(v, 3)))
        keyed(c, text) ==
            IF Len(text) >= 2 /\ text[1] \in {"'", "\""} /\ text[Len(text)] \in {"'", "\""}
            THEN appended(c, FieldNode(Name(SubSeq(text, 2, Len(text) - 1))))
            ELSE sliced(c, text, parts(text, 1, <<<<>>>>))
        RECURSIVE union(_, _, _, _)
        union(c, strs, i, lists) ==
            LET branch(q) == IF q.err # "" THEN failed(c, q.err)
                             ELSE union(c, strs, i + 1, Append(lists, q.Root))
            IN IF i > Len(strs) THEN appended(c, UnionNode(lists))
               ELSE branch(parseAction(<<"[">> \o trim(strs[i], {" "}) \o <<"]">>))
        split(c, text, strs) ==
            IF Len(strs) > 1 THEN union(c, strs, 1, <<>>)
            ELSE keyed(c, trim(text, {" ", "\t", "\r", "\n"}))
        inside(c, text) ==
            IF text = <<"*">> THEN appended(c, WildcardNode)
            ELSE split(c, text, splitByComma(text))
        made(c) == inside(c, SubSeq(c.value, 2, Len(c.value) - 1))
        scanned(f) == IF f.err # "" THEN [s EXCEPT !.p = f.p, !.err = f.err]
                      ELSE made(consumeText(f.p))
    IN scanned(scan(s.p))

\* p.parseFilter(cur), the cursor standing before "[?(".
parseFilter(s) ==
    LET RECURSIVE scan(_, _, _, _)
        scan(p, begin, end, pair) ==
            LET step(n) ==
                    IF n.r \in {"eof", "\n"} THEN [p |-> n.p, err |-> "unterminated filter"]
                    ELSE IF n.r \in {"'", "\""}
                    THEN (IF ~begin THEN scan(n.p, TRUE, end, n.r)
                          ELSE scan(n.p, begin,
                                    end \/ (n.p.input[n.p.pos - 1] # "\\" /\ n.r = pair), pair))
                    ELSE IF n.r = ")" /\ begin = end THEN [p |-> n.p, err |-> ""]
                    ELSE scan(n.p, begin, end, pair)
            IN step(next(p))
        isOp(ch) == ch \in {"!", "<", ">", "="}
        \* the length of the longest run from position i on whose characters
        \* are (op = TRUE) or are not (op = FALSE) operator characters
        RECURSIVE run(_, _, _)
        run(text, i, op) ==
            IF i > Len(text) \/ isOp(text[i]) # op THEN 0 ELSE 1 + run(text, i + 1, op)
        appended(c, node) == parseInsideAction([s EXCEPT !.p = c.p, !.cur = Append(@, node)])
        failed(c, e) == [s EXCEPT !.p = c.p, !.err = e]
        right(c, operator, l, r) ==
            IF r.err # "" THEN failed(c, r.err)
            ELSE appended(c, FilterNode(l.Root, r.Root, Name(operator)))
        left(c, l, operator, rest) ==
            IF l.err # "" THEN failed(c, l.err)
            ELSE right(c, operator, l, parseAction(rest))
        exists(c, q) ==
            IF q.err # "" THEN failed(c, q.err)
            ELSE appended(c, FilterNode(q.Root, ListNode(<<>>), "exists"))
        \* ^([^!<>=]+)([!<>=]+)(.+?)$ with k and m the lengths of the first
        \* two runs; the operator run gives its last character back when
        \* nothing follows it.
        matched(c, text, k, m) ==
            IF k = 0 \/ m = 0 \/ (k + m = Len(text) /\ m = 1) THEN exists(c, parseAction(text))
            ELSE IF k + m = Len(text)
            THEN left(c, parseAction(SubSeq(text, 1, k)), SubSeq(text, k + 1, k + m - 1),
                      SubSeq(text, k + m, Len(text)))
            ELSE left(c, parseAction(SubSeq(text, 1, k)), SubSeq(text, k + 1, k + m),
                      SubSeq(text, k + m + 1, Len(text)))
        first(c, text, k) == matched(c, text, k, run(text, k + 1, TRUE))
        made(c) == first(c, SubSeq(c.value, 1, Len(c.value) - 2),
                         run(SubSeq(c.value, 1, Len(c.value) - 2), 1, FALSE))
        closed(n) == IF n.r # "]" THEN [s EXCEPT !.p = n.p, !.err = "unclosed array expect ]"]
                     ELSE made(consumeText(n.p))
        scanned(f) == IF f.err # "" THEN [s EXCEPT !.p = f.p, !.err = f.err]
                      ELSE closed(next(f.p))
    IN scanned(scan([s.p EXCEPT !.pos = @ + 3, !.start = s.p.pos + 3], FALSE, FALSE, ""))

\* p.parseInsideAction(cur), with p.parseRightDelim(cur): at "}" the list
\* that was filled stands in p.Root and the text behind it is parsed.
parseInsideAction(s) ==
    LET consumed(n) == [s EXCEPT !.p = [n.p EXCEPT !.start = n.p.pos]]
        read(n) == [s EXCEPT !.p = n.p]
        unread(n) == [s EXCEPT !.p = [n.p EXCEPT !.pos = @ - n.p.width]]
        dispatch(n) ==
            IF n.r \in {"eof", "\r", "\n"} THEN [s EXCEPT !.p = n.p, !.err = "unclosed action"]
            ELSE IF n.r = " " THEN parseInsideAction(consumed(n))
            ELSE IF n.r \in {"@", "$"} THEN parseInsideAction(consumed(n))
            ELSE IF n.r = "[" THEN parseArray(read(n))
            ELSE IF n.r \in {"'", "\""} THEN parseQuote(read(n), n.r)
            ELSE IF n.r = "." THEN parseField(read(n))
            ELSE IF n.r \in {"+", "-"} \/ n.r \in Digits THEN parseNumber(unread(n))
            ELSE IF isAlphaNumeric(n.r) THEN parseIdentifier(unread(n))
            ELSE [s EXCEPT !.p = n.p, !.err = "unrecognized character in action"]
    IN IF HasPrefix(s.p, <<"}">>)
       THEN parseText([s EXCEPT !.p = [s.p EXCEPT !.pos = @ + 1, !.start = s.p.pos + 1],
                                !.root = Append(@, ListNode(s.cur)), !.cur = <<>>])
       ELSE IF HasPrefix(s.p, <<"[", "?", "(">>) THEN parseFilter(s)
       ELSE IF HasPrefix(s.p, <<".", ".">>) THEN parseRecursive(s)
       ELSE dispatch(next(s.p))

\* p.parseText(cur), with p.parseLeftDelim(cur); cur is p.Root at every call.
parseText(s) ==
    LET texted(c) == [s EXCEPT !.p = c.p, !.root = Append(@, TextNode(Name(c.value)))]
        flushed(t) == IF t.p.pos > t.p.start THEN texted(consumeText(t.p)) ELSE t
        opened(t) == parseInsideAction([t EXCEPT !.p = [t.p EXCEPT !.pos = @ + 1,
                                                                  !.start = t.p.pos + 1],
                                                 !.cur = <<>>])
        step(n) == IF n.r = "eof" THEN flushed([s EXCEPT !.p = n.p])
                   ELSE parseText([s EXCEPT !.p = n.p])
    IN IF HasPrefix(s.p, <<"{">>) THEN opened(flushed(s)) ELSE step(next(s.p))

\* Parse(name, text): [err, Root].
Parse(text) ==
    LET parsed(s) == [err |-> s.err, Root |-> ListNode(s.root)]
    IN parsed(parseText([p |-> [input |-> text, pos |-> 0, start |-> 0, width |-> 0],
                         root |-> <<>>, cur |-> <<>>, err |-> ""]))

\* ------------------------------------------------------------------ compiled texts
\* New(name, expr): the text goes to Parse between the delimiters; on an
\* error no path is returned.
New ==
    /\ parser.type = "Source"
    /\ LET compiled(q) ==
               /\ parser' = IF q.err # "" THEN [type |-> "nil"] ELSE q.Root.Nodes[1]
               /\ err' = IF q.err # "" THEN "cannot parse jsonpath string" ELSE ""
       IN compiled(Parse(<<"{">> \o parser.Text \o <<"}">>))
    /\ UNCHANGED <<heap, dataHolder, writeMode, warnings, result, log>>

\* InitData is called at most MaxDocs times on one compiled path.
MaxDocs == 2

\* j.InitData(obj) on a compiled path: obj is appended to j.dataHolder; the
\* caller builds obj on the heap first (ConvertToJsonObj).
InitData(doc) ==
    /\ parser.type = "List" /\ dataHolder.len < MaxDocs
    /\ LET held(o, d) ==
               /\ heap' = ArrPut(d.h, d.v, d.v.len - 1, o.v)
               /\ dataHolder' = d.v
           built(o) == held(o, AppendNulls(o.h, dataHolder, 1))
       IN built(Alloc(heap, doc, 0))
    /\ UNCHANGED <<parser, writeMode, warnings, result, err, log>>

\* The texts of the malformed expressions, and other texts.
MalformedTexts ==
    {<<"$", "[", "k", "e", "y", "]">>,
     <<"$", ".", "[", "k", "e", "y", "]">>,
     <<"$", "a">>,
     <<"k", "e", "y">>,
     <<"$", ".", " ", "a">>,
     <<"$", "[", "t", "w", "o", ".", "s", "o", "m", "e", "]">>,
     <<"$", "[", "'", "s", "i", "n", "g", "l", "e", "'", "q", "u", "o", "t", "e", "'", "]">>,
     <<>>}
ParseTexts ==
    MalformedTexts
    \cup {<<"$", ".", ".", "*">>,
          <<"$", ".", ".", "[", "*", "]">>,
          <<"$", ".", ".">>,
          <<"$", ".", "a">>,
          <<"$", "[", "*", "]">>,
          <<"$", ".", "*">>,
          <<"$", ".", "*", ".", "*">>,
          <<"$", ".", "*", ".", "*", ".", "*">>,
          <<"$", " ", "4", "2">>,
          <<"$", " ", "1", "0">>,
          <<"$", " ", "t", "r", "u", "e">>,
          <<"$", ".", "a", " ", "4", "2">>,
          <<"$", "[", "*", "]", " ", "4", "2">>,
          <<"$", "[", "?", "(", "@", ".", "*", "=", "=", "1", ")", "]">>,
          <<"$", "[", "?", "(", "1", "=", "=", "@", ".", "*", ")", "]">>,
          <<"$", "[", "?", "(", "@", ".", "a", "=", "=", "1", ")", "]">>,
          <<"$", "[", "?", "(", "@", ".", "a", ")", "]">>,
          <<"$", "[", "?", "(", "k", "e", "y", ")", "]">>,
          <<"$", "[", "?", "(", "'", "x", "'", ")", "]">>,
          <<"$", "[", "?", "(", "@", ".", "*", ")", "]">>,
          <<"$", "[", "?", "(", "@", "=", "=", "1", ")", "]">>,
          <<"$", "[", "?", "(", "@", "[", "0", "]", ")", "]">>,
          <<"$", "[", "?", "(", "@", "[", "1", "]", ")", "]">>,
          <<"$", "[", "?", "(", "@", "[", "-", "1", "]", ")", "]">>,
          <<"$", "[", "?", "(", "@", "[", "0", "]", ")", "]", "[", "0", "]", ".", "a">>,
          <<"$", "[", "?", "(", "@", ".", "a", "=", "=", "'", "x", "'", ")", "]">>,
          <<"$", ".", "a", "[", "0", ":", "-", "2", "]">>}
ParseDocs ==
    {ScalarArray(2), List(<<IntV(1), List(<<IntV(1), IntV(2)>>)>>),
     List(<<ObjOf(IntV(1), IntV(2)), ObjOf(IntV(1), Absent)>>),
     ObjOf(ObjOf(IntV(1), IntV(1)), List(<<IntV(1)>>)), ObjOf(IntV(1), Absent),
     Obj(NoKeys), IntV(10)}

InitParse ==
    /\ \E text \in ParseTexts : parser = [type |-> "Source", Text |-> text]
    /\ heap = <<ArrObj(<<>>)>>
    /\ dataHolder = ArrV(1, 0, 0)
    /\ writeMode = FALSE
    /\ warnings = <<>>
    /\ result = <<>>
    /\ err = ""
    /\ log = <<>>
\* A compiled path is given its document once, before the calls.
NextParse == New \/ (\E doc \in ParseDocs : dataHolder.len = 0 /\ InitData(doc)) \/ Next
SpecParse == InitParse /\ [][NextParse]_vars

\* C15: New returns an error, and no compiled path, for each of the
\* malformed texts.
C15_CompileRejects ==
    [][(parser.type = "Source" /\ parser.Text \in MalformedTexts)
           => (parser'.type = "nil" /\ err' # "")]_vars

\* C16: "$..*" compiles, to a Recursive node followed by a Wildcard node (the
\* path "$..[*]" compiles to, so that Get returns the same for both).
C16_RecursiveWildcardCompiles ==
    [][(parser.type = "Source" /\ parser.Text = <<"$", ".", ".", "*">>)
           => (/\ err' = ""
               /\ parser' = ListNode(<<RecursiveNode, WildcardNode>>)
               /\ Parse(<<"{", "$", ".", ".", "[", "*", "]", "}">>).Root.Nodes[1] = parser')]_vars

\* ------------------------------------------------------------------ filter sides
\* "$[?(@.*==1)]" and "$[?(1==@.*)]": one side of the comparison is every
\* member of the element.
WildcardSideFilters ==
    {ListNode(<<FilterNode(ListNode(<<WildcardNode>>), ListNode(<<IntNode(1)>>), "==")>>),
     ListNode(<<FilterNode(ListNode(<<IntNode(1)>>), ListNode(<<WildcardNode>>), "==")>>)}
\* The document has a child with two or more members.
HasWideChild(tr) == \E i \in DOMAIN SubTrees(tr) : Len(SubTrees(SubTrees(tr)[i])) >= 2

\* C17: when a side of a comparison filter yields more than one footprint for
\* some element, Get returns that error and an empty sequence.
C17_FilterSideFatal ==
    (AfterGet /\ parser \in WildcardSideFilters /\ HasWideChild(Last.before))
        => (err = "can only compare one element at a time" /\ result = <<>>)

\* C17 witness: on [1,[1,2]] the first element is passed over and the second
\* has ended the Get with the error.
C17_Witness ==
    /\ AfterGet /\ parser \in WildcardSideFilters
    /\ Last.before = List(<<IntV(1), List(<<IntV(1), IntV(2)>>)>>)
    /\ err = "can only compare one element at a time" /\ result = <<>>

\* ------------------------------------------------------------------ field on a non-object
\* C18: Get with "$.a" on a document that is an array or a scalar drops the
\* footprint: no error, an empty result, and one warning for the footprint
\* dropped.
C18_FieldOnNonObject ==
    (AfterGet /\ parser = ListNode(<<FieldNode("a")>>) /\ Last.before.t # "obj")
        => (err = "" /\ result = <<>> /\ Len(warnings) = Last.warned + 1)

\* ------------------------------------------------------------------ wildcards
\* What a wildcard makes of the value tr: a scalar stays, an array gives its
\* elements in ascending order, an object its members in the order o.
WildcardOf(tr, o) == IF tr.t \in {"obj", "list"} THEN ChildrenOf(tr, o) ELSE <<tr>>
RECURSIVE WildcardOfEach(_, _)
WildcardOfEach(ts, o) ==
    IF Len(ts) = 0 THEN <<>> ELSE WildcardOf(ts[1], o) \o WildcardOfEach(Tail(ts), o)

\* A path of one, two or three wildcards.
Wildcards == {ListNode([i \in 1..n |-> WildcardNode]) : n \in 1..3}

\* The values n wildcards in a row make of the values ts.
RECURSIVE WildcardsOf(_, _, _)
WildcardsOf(ts, n, o) == IF n = 0 THEN ts ELSE WildcardsOf(WildcardOfEach(ts, o), n - 1, o)

\* A scalar, or an array of scalars and of arrays of scalars.
ObjectFree(tr) ==
    /\ tr.t # "obj"
    /\ tr.t = "list" => \A i \in DOMAIN tr.e :
           /\ tr.e[i].t # "obj"
           /\ tr.e[i].t = "list" => \A k \in DOMAIN tr.e[i].e : tr.e[i].e[k].t \notin {"obj", "list"}

\* C19: Get with a path of wildcards on a scalar or an array of scalars and
\* arrays returns no error and, wildcard after wildcard, every scalar
\* reached as it is and the elements of every array reached in ascending
\* order; on an object the first wildcard gives exactly its members.
C19_Wildcard ==
    /\ (AfterGet /\ parser \in Wildcards /\ ObjectFree(Last.before))
          => (err = "" /\ ResultTrees = WildcardsOf(<<Last.before>>, Len(parser.Nodes), KeySeq))
    /\ (AfterGet /\ parser = ListNode(<<WildcardNode>>) /\ Last.before.t = "obj")
          => (err = "" /\ \E o \in KeyOrders : ResultTrees = ChildrenOf(Last.before, o))

\* ------------------------------------------------------------------ exists filters
\* The sub-expressions of the exists filters among the compiled texts:
\* @.a, @.*, and the two that walk refuses, key and 'x'.
ExistsSubs ==
    {ListNode(<<FieldNode("a")>>), ListNode(<<WildcardNode>>),
     ListNode(<<IdentifierNode("key")>>), ListNode(<<TextNode("x")>>)}

\* Whether the sub-expression yields a footprint on the element c: a member
\* "a" of an object, the selection of all children of a container.
Yields(sub, c) ==
    CASE sub.Nodes[1].type = "Field" -> c.t = "obj" /\ "a" \in DOMAIN c.m
      [] sub.Nodes[1].type = "Wildcard" -> c.t \in {"obj", "list"}
      [] OTHER -> FALSE

\* The elements a filter looks at: the children of a container, none of a scalar.
ElementsOf(tr, o) == IF tr.t \in {"obj", "list"} THEN ChildrenOf(tr, o) ELSE <<>>

\* C20: Get with [?(expr)] returns exactly the elements on which expr yields
\* a footprint, and returns no error, also when expr fails on an element.
C20_ExistsTolerant ==
    \A sub \in ExistsSubs :
        (AfterGet /\ parser = ListNode(<<ExistsFilter(sub)>>))
            => /\ err = ""
               /\ \E o \in KeyOrders :
                      ResultTrees = SelectSeq(ElementsOf(Last.before, o),
                                              LAMBDA c : Yields(sub, c))

\* C20 witness: "$[?(key)]" on [10,11], where walk refuses the identifier on
\* every element, has returned no element and no error.
C20_Witness ==
    /\ AfterGet /\ parser = ListNode(<<ExistsFilter(ListNode(<<IdentifierNode("key")>>))>>)
    /\ Last.before.t = "list" /\ Len(Last.before.e) = 2
    /\ err = "" /\ result = <<>>

\* C20 second case reached: "$[?(@.a)]" has kept one child and left one out.
C20_WitnessKept ==
    /\ AfterGet /\ parser = ListNode(<<ExistsFilter(ListNode(<<FieldNode("a")>>))>>)
    /\ Last.before.t = "obj" /\ Len(result) = 1 /\ err = ""

\* ------------------------------------------------------------------ growth
\* The start and the end of a slice, an omitted one counting as 0.
GivenStart(node) == IF node.Params[1].Known THEN node.Params[1].Value ELSE 0
GivenEnd(node) == IF node.Params[2].Known THEN node.Params[2].Value ELSE 0

\* C21: after a Set with a slice [start:end:step] on an array, whatever of
\* start and end is given or omitted, the array has at least max(start, end)
\* entries.
C21_SliceGrowth ==
    (AfterSet /\ IsSliceExpr /\ Last.before.t = "list" /\ ~IsPanic(err)) =>
        /\ Doc.t = "list"
        /\ Len(Doc.e) >= Max(GivenStart(parser.Nodes[1]), GivenEnd(parser.Nodes[1]))

\* ------------------------------------------------------------------ literals
\* C22: a literal gives one footprint for each footprint it meets: Get with
\* "$[*] 42" returns 42 once for every footprint the wildcard leaves (one
\* per child of a container, one for a scalar document), and Get with
\* "$[?(@==1)]" on an array returns exactly its elements equal to 1.
C22_LiteralPerFootprint ==
    /\ (AfterGet /\ parser = ListNode(<<WildcardNode, IntNode(42)>>))
          => (err = "" /\ ResultTrees = [i \in 1..Len(WildcardOf(Last.before, KeySeq)) |-> IntV(42)])
    /\ (AfterGet /\ parser = ListNode(<<FilterNode(ListNode(<<>>), ListNode(<<IntNode(1)>>), "==")>>)
            /\ Last.before.t = "list")
          => (err = "" /\ ResultTrees = SelectSeq(Last.before.e, LAMBDA c : c = IntV(1)))

\* ------------------------------------------------------------------ filters in Set
\* Whether [?(@.f OP lit)] keeps the child c in Get.
Keeps(c, f, operator, lit) == c.t = "obj" /\ f \in DOMAIN c.m /\ Compare(operator, c.m[f], lit)

\* C23: after a Set with [?(@.a OP 1)] on an array of objects, every element
\* the filter rejects in Get is structurally what it was before the Set.
C23_FilterDoesNotWrite ==
    (AfterSet /\ IsFilterExpr /\ Len(parser.Nodes) = 1
        /\ Last.before.t = "list" /\ ObjectChildren(Last.before)) =>
        /\ Doc.t = "list" /\ Len(Doc.e) = Len(Last.before.e)
        /\ \A i \in DOMAIN Last.before.e :
              ~Keeps(Last.before.e[i], "a", parser.Nodes[1].Operator, Literal)
                  => Doc.e[i] = Last.before.e[i]

\* ------------------------------------------------------------------ unions in Set
\* A union of two indices i, j >= 0 and nothing after it.
IsIndexPair ==
    /\ Len(parser.Nodes) = 1 /\ parser.Nodes[1].type = "Union"
    /\ Len(parser.Nodes[1].Nodes) = 2
    /\ \A k \in 1..2 : /\ parser.Nodes[1].Nodes[k].Nodes[1].type = "ArrayElement"
                       /\ parser.Nodes[1].Nodes[k].Nodes[1].Value >= 0
PairIndex(k) == parser.Nodes[1].Nodes[k].Nodes[1].Value

\* C24: after a Set with [i,j] on an array of length L <= max(i,j), Set has
\* returned no error and the array holds the change at index i and at index j.
C24_UnionWritesBoth ==
    (AfterSet /\ IsIndexPair /\ Last.before.t = "list"
        /\ Len(Last.before.e) <= Max(PairIndex(1), PairIndex(2))) =>
        /\ err = "" /\ Doc.t = "list"
        /\ \A k \in 1..2 : /\ PairIndex(k) < Len(Doc.e)
                           /\ Doc.e[PairIndex(k) + 1] = Last.change

\* ------------------------------------------------------------------ virtual selections
\* $[?(@[0])][0].a: a field of the first element of every child that has one.
IndexAfterFilter ==
    ListNode(<<ExistsFilter(ListNode(<<ArrayElementNode(Known(0))>>)),
               ArrayElementNode(Known(0)), FieldNode("a")>>)

\* C25: after a Set with $[?(@[0])][0].a on an array, every child array whose
\* first element was a scalar or null still has that first element.
C25_VirtualMeansAbsent ==
    (AfterSet /\ parser = IndexAfterFilter /\ Last.before.t = "list") =>
        /\ Doc.t = "list" /\ Len(Doc.e) = Len(Last.before.e)
        /\ \A i \in DOMAIN Last.before.e :
              (/\ Last.before.e[i].t = "list" /\ Len(Last.before.e[i].e) > 0
               /\ Last.before.e[i].e[1].t \notin {"obj", "list"})
                  => (/\ Doc.e[i].t = "list" /\ Len(Doc.e[i].e) > 0
                      /\ Doc.e[i].e[1] = Last.before.e[i].e[1])

\* ------------------------------------------------------------------ read-only Get
\* C26: after a Get, also one that follows a Set, the document is
\* structurally what it was before the Get.
C26_GetReadOnly == AfterGet => Doc = Last.before

\* C26 witness: a Get that follows a Set which changed the document has
\* returned and left the document as the Set made it.
C26_Witness ==
    /\ Len(log) = 2 /\ log[1].op = "Set" /\ log[1].err = "" /\ log[2].op = "Get"
    /\ log[2].before # log[1].before
    /\ Doc = log[2].before

\* ------------------------------------------------------------------ documents of one path
\* A compiled path that is given up to MaxDocs documents, one after the
\* other, before Get and Set are called.
GivenDocs == {ObjOf(IntV(1), Absent), ObjOf(IntV(2), Absent), ScalarArray(2)}
NextDocs == New \/ (\E doc \in GivenDocs : log = <<>> /\ InitData(doc)) \/ Next
SpecDocs == InitParse /\ [][NextDocs]_vars

\* The documents InitData was given, in the order of the calls.
Held == [i \in 1..dataHolder.len |-> Tree(heap, ArrGet(heap, dataHolder, i - 1))]

\* C27: after a Get with "$.a" on a path that was given several documents,
\* Data() is the document given last and the result is drawn from that
\* document alone.
C27_OneDocument ==
    (AfterGet /\ parser = ListNode(<<FieldNode("a")>>) /\ dataHolder.len > 1) =>
        /\ Doc = Held[Len(Held)]
        /\ ResultTrees = Selected(Held[Len(Held)], FieldNode("a"))

\* ------------------------------------------------------------------ string literals
\* "$[?(@.a=='x')]" as compiled.
StringFilter ==
    ListNode(<<FilterNode(ListNode(<<FieldNode("a")>>), ListNode(<<TextNode("x")>>), "==")>>)

\* C28: Get with "$[?(@.a=='x')]" on a container with at least one child
\* returns no error, and only children that hold a string under a.
C28_StringLiteralFilter ==
    (AfterGet /\ parser = StringFilter /\ Len(ElementsOf(Last.before, KeySeq)) > 0) =>
        /\ err = ""
        /\ \A i \in DOMAIN ResultTrees :
              /\ ResultTrees[i].t = "obj" /\ "a" \in DOMAIN ResultTrees[i].m
              /\ ResultTrees[i].m["a"].t = "str"

\* ------------------------------------------------------------------ negative slice end
\* "$.a[0:-2]" as compiled.
NegativeEndSlice ==
    ListNode(<<FieldNode("a"), ArrayNode(Known(0), Known(-2), Unknown)>>)

\* C29: a Set with "$.a[0:-2]" on an object whose a is missing or not an
\* array returns an error, and the program has not crashed.
C29_NegativeEndFailsCleanly ==
    (AfterSet /\ parser = NegativeEndSlice /\ Last.before.t = "obj"
        /\ ("a" \in DOMAIN Last.before.m => Last.before.m["a"].t # "list")) =>
        (err # "" /\ ~IsPanic(err))

\* ------------------------------------------------------------------ exists filter on an index
\* "$[?(@[n])]" for n in -1..1, as compiled.
IndexExists == {ListNode(<<ExistsFilter(ListNode(<<ArrayElementNode(Known(n))>>))>>) : n \in -1..1}

\* Whether the value c is an array with an element at index n, a negative n
\* counting from the end.
HasIndex(c, n) == c.t = "list" /\ (IF n >= 0 THEN n < Len(c.e) ELSE -n <= Len(c.e))

\* C30: every child a Get with "$[?(@[n])]" returns is an array that has an
\* element at index n.
C30_IndexExistsFilter ==
    (AfterGet /\ parser \in IndexExists) =>
        \A i \in DOMAIN ResultTrees :
            HasIndex(ResultTrees[i], parser.Nodes[1].Left.Nodes[1].Value)

====
